---- MODULE Spec2Model ----
(***************************************************************************)
(* Verification model of the visitor-facing pages of h4a-frontend:         *)
(*   - the slug page (SlugPage) and its redirect component (ClientRedirect)*)
(*   - the file page (FilePage)                                            *)
(*   - the image page (ImagePage)                                          *)
(* One page view is modelled per behaviour; `page` says which route was    *)
(* opened.  Time is counted in ticks of 200 ms, the greatest common        *)
(* divisor of the timer values of ClientRedirect (1200, 3000, 5000 ms);    *)
(* every pending timer and every abort signal holds the ticks it has left. *)
(***************************************************************************)
EXTENDS Integers, Sequences, FiniteSets, TLC

\* ---------------------------------------------------------------- bounds
\* Largest number of runs of the ClientRedirect effect in one page view.
MaxRuns == 2
\* Largest number of download clicks in one view of the file or image page.
MaxDownloads == 2
\* Largest number of uploads in one view of the upload page.
MaxUploads == 2

\* ------------------------------------------------------ program constants
GeoTimeoutMs == 3000
PostTimeoutMs == 5000
RedirectDelayMs == 1200
FallbackMs == 3000
IntervalMs == 70
ProgressStep == 6
ProgressFull == 100

RECURSIVE Gcd(_, _)
Gcd(a, b) == IF b = 0 THEN a ELSE Gcd(b, a % b)

\* The length of a clock tick: the greatest common divisor of the timer
\* values that are counted in ticks (200 ms).
TickMs ==
  Gcd(Gcd(GeoTimeoutMs, PostTimeoutMs), Gcd(RedirectDelayMs, FallbackMs))

\* Milliseconds to ticks.
Ticks(ms) == ms \div TickMs

Null == "null"

\* ------------------------------------------------------------- strings
\* URLs are sequences of characters, so that startsWith is computed.
HttpPrefix == <<"h", "t", "t", "p", ":", "/", "/">>
HttpsPrefix == <<"h", "t", "t", "p", "s", ":", "/", "/">>

StartsWith(s, p) == Len(s) >= Len(p) /\ SubSeq(s, 1, Len(p)) = p

\* originalUrl values the backend may hold for a slug.
StoredUrls ==
  { <<"a", ".", "c">>,
    HttpPrefix \o <<"b">>,
    <<"j", "s", ":", "x">> }

Slugs == {"abc", "xyz"}

\* The props a re-render of the slug page can hand to ClientRedirect.
Links ==
  { [slug |-> "abc", url |-> HttpsPrefix \o <<"a", ".", "c">>],
    [slug |-> "xyz", url |-> HttpPrefix \o <<"b">>] }

\* ------------------------------------------------- SlugPage (server side)
\* Answers of GET /api/url/:slug: a thrown fetch, or a status with a body
\* that holds originalUrl or not.
SlugResponses ==
  { [kind |-> "thrown", status |-> 0, originalUrl |-> <<>>] }
    \cup { [kind |-> "response", status |-> st, originalUrl |-> <<>>] :
             st \in {200, 404, 410, 500} }
    \cup { [kind |-> "response", status |-> 200, originalUrl |-> u] :
             u \in StoredUrls }

ResponseOk(status) == status >= 200 /\ status <= 299

\* part_001:606-610 without the test of the protocol.
TargetUrlAsStored(originalUrl) == originalUrl
\* part_001:606-610
TargetUrl(originalUrl) ==
  IF ~StartsWith(originalUrl, HttpPrefix) /\ ~StartsWith(originalUrl, HttpsPrefix)
  THEN HttpsPrefix \o originalUrl
  ELSE originalUrl

\* What SlugPage renders for a response (part_001:562-626).
SlugOutcomeNoUrlCheck(resp) ==
  IF resp.kind = "thrown" THEN "error"
  ELSE IF ~ResponseOk(resp.status)
       THEN IF resp.status = 404 THEN "notFound"
            ELSE IF resp.status = 410 THEN "expired"
            ELSE "failed"
       ELSE "redirect"
SlugOutcome(resp) ==
  IF resp.kind = "thrown" THEN "error"
  ELSE IF ~ResponseOk(resp.status)
       THEN IF resp.status = 404 THEN "notFound"
            ELSE IF resp.status = 410 THEN "expired"
            ELSE "failed"
       ELSE IF resp.originalUrl = <<>> THEN "error"
            ELSE "redirect"

SlugFailureStates == {"notFound", "expired", "failed", "error"}

\* ------------------------------------------------------- geolocation
\* Outcomes of the request to the IP geolocation provider.
GeoBodies == {"nonjson", "fail", "success", "blank"}

GeoOutcomes ==
  { [kind |-> "rejected", ok |-> FALSE, body |-> "nonjson"],
    [kind |-> "timeout", ok |-> FALSE, body |-> "nonjson"] }
    \cup { [kind |-> "response", ok |-> o, body |-> b] :
             o \in BOOLEAN, b \in GeoBodies }

\* The fields a body of status 'success' carries ("" when absent).
BodyField(body, field) ==
  IF body = "success"
  THEN CASE field = "country" -> "US"
         [] field = "city" -> "NYC"
         [] OTHER -> "NY"
  ELSE ""

\* data.x || dflt
OrDefault(v, dflt) == IF v = "" THEN dflt ELSE v

GeoRecord(c, ci, r) == [country |-> c, city |-> ci, region |-> r]

GeoNull == GeoRecord(Null, Null, Null)
GeoUnknown == GeoRecord("Unknown", "Unknown", "Unknown")

\* ClientRedirect.tsx:322-376
FetchGeoLocation(o) ==
  IF o.kind = "response" /\ o.ok /\ o.body \in {"success", "blank"}
  THEN GeoRecord(OrDefault(BodyField(o.body, "country"), Null),
                 OrDefault(BodyField(o.body, "city"), Null),
                 OrDefault(BodyField(o.body, "region"), Null))
  ELSE GeoNull

\* ClientRedirect.tsx:644-661 (file page): response.ok is not consulted.
FetchGeoLocationFile(o) ==
  IF o.kind = "response" /\ o.body \in {"success", "blank"}
  THEN GeoRecord(OrDefault(BodyField(o.body, "country"), "Unknown"),
                 OrDefault(BodyField(o.body, "city"), "Unknown"),
                 OrDefault(BodyField(o.body, "region"), "Unknown"))
  ELSE GeoUnknown

\* i/[slug]/page.tsx:48-65 (image page): the same code as the file page.
FetchGeoLocationImage(o) ==
  IF o.kind = "response" /\ o.body \in {"success", "blank"}
  THEN GeoRecord(OrDefault(BodyField(o.body, "country"), "Unknown"),
                 OrDefault(BodyField(o.body, "city"), "Unknown"),
                 OrDefault(BodyField(o.body, "region"), "Unknown"))
  ELSE GeoUnknown

\* The provider's answer is one of the failures: a rejected or timed-out
\* request, a non-success HTTP status, a body that is not JSON, or a status
\* other than 'success'.
GeoFailure(o) ==
  \/ o.kind \in {"rejected", "timeout"}
  \/ ~o.ok
  \/ o.body \in {"nonjson", "fail"}

\* Outcomes of the analytics POST.
PostOutcomes == {"ok", "httpError", "rejected", "timeout"}

\* ------------------------------------------------ strings as characters
\* User agents, referrers and host names are sequences of characters, so
\* that includes(), toLowerCase() and the regular expressions are computed.
Includes(s, p) ==
  \E i \in 0..(Len(s) - Len(p)) : SubSeq(s, i + 1, i + Len(p)) = p

\* The letters, with toLowerCase as a table, and the character classes
\* [0-9], [0-9.] and [0-9_] of the regular expressions; letters and scheme
\* are the characters a URL scheme may hold.
Chars ==
  LET upper ==
        <<"A", "B", "C", "D", "E", "F", "G", "H", "I", "J", "K", "L", "M",
          "N", "O", "P", "Q", "R", "S", "T", "U", "V", "W", "X", "Y", "Z">>
      lower ==
        <<"a", "b", "c", "d", "e", "f", "g", "h", "i", "j", "k", "l", "m",
          "n", "o", "p", "q", "r", "s", "t", "u", "v", "w", "x", "y", "z">>
      digits == {"0", "1", "2", "3", "4", "5", "6", "7", "8", "9"}
      letters == {upper[i] : i \in 1..26} \cup {lower[i] : i \in 1..26}
  IN [upper |-> upper,
      lower |-> lower,
      digits |-> digits,
      digitsDot |-> digits \cup {"."},
      digitsUnderscore |-> digits \cup {"_"},
      letters |-> letters,
      scheme |-> letters \cup digits \cup {"+", "-", "."}]
LowerOf ==
  [c \in {Chars.upper[i] : i \in 1..26} |->
     Chars.lower[CHOOSE i \in 1..26 : Chars.upper[i] = c]]

\* String.prototype.toLowerCase on the characters used here.
toLowerCase(s) ==
  [i \in 1..Len(s) |-> IF s[i] \in DOMAIN LowerOf THEN LowerOf[s[i]] ELSE s[i]]

\* RegExp.prototype.test for a pattern that is a literal word.
Test(word, s) == Includes(s, word)
\* The same with the i flag.
TestI(word, s) == Includes(toLowerCase(s), toLowerCase(word))

\* The pattern element that stands for the regular expression's dot.
AnyChar == "any"

\* A pattern of characters and dots matches s at position i.
MatchAt(pat, s, i) ==
  /\ i >= 1
  /\ i + Len(pat) - 1 <= Len(s)
  /\ \A j \in 1..Len(pat) : pat[j] = AnyChar \/ pat[j] = s[i + j - 1]

\* word followed by at least one character of class cls, at position i.
CaptureAt(word, cls, s, i) ==
  /\ MatchAt(word, s, i)
  /\ i + Len(word) <= Len(s)
  /\ s[i + Len(word)] \in cls

\* The longest run of characters of cls that starts at position i of s:
\* what a greedy ([...]+) captures.
RECURSIVE RunFrom(_, _, _)
RunFrom(s, i, cls) ==
  IF i <= Len(s) /\ s[i] \in cls
  THEN <<s[i]>> \o RunFrom(s, i + 1, cls)
  ELSE <<>>

Min(S) == CHOOSE x \in S : \A y \in S : x <= y
Max(S) == CHOOSE x \in S : \A y \in S : x >= y

\* /word([cls]+)/.test(s)
TestCapture(word, cls, s) == \E i \in (1..Len(s)) : CaptureAt(word, cls, s, i)
\* s.match(/word([cls]+)/)[1]: the leftmost match, or "" without a match.
Capture(word, cls, s) ==
  LET at == {i \in (1..Len(s)) : CaptureAt(word, cls, s, i)}
  IN IF at = {} THEN <<>> ELSE RunFrom(s, Min(at) + Len(word), cls)

\* replace(/_/g, '.')
Dotted(s) == [i \in 1..Len(s) |-> IF s[i] = "_" THEN "." ELSE s[i]]

\* ------------------------------------------------------------ detectBot
\* ClientRedirect.tsx:13-24, every pattern carries the i flag.
botPatterns ==
  { <<"b", "o", "t">>,
    <<"c", "r", "a", "w", "l">>,
    <<"s", "p", "i", "d", "e", "r">>,
    <<"s", "l", "u", "r", "p">>,
    <<"m", "e", "d", "i", "a", "p", "a", "r", "t", "n", "e", "r", "s">>,
    <<"g", "o", "o", "g", "l", "e", "b", "o", "t">>,
    <<"b", "i", "n", "g", "b", "o", "t">>,
    <<"y", "a", "n", "d", "e", "x">>,
    <<"b", "a", "i", "d", "u", "s", "p", "i", "d", "e", "r">>,
    <<"f", "a", "c", "e", "b", "o", "o", "k", "e", "x", "t", "e", "r",
        "n", "a", "l", "h", "i", "t">>,
    <<"t", "w", "i", "t", "t", "e", "r", "b", "o", "t">>,
    <<"l", "i", "n", "k", "e", "d", "i", "n", "b", "o", "t">>,
    <<"p", "i", "n", "t", "e", "r", "e", "s", "t">>,
    <<"w", "h", "a", "t", "s", "a", "p", "p">>,
    <<"t", "e", "l", "e", "g", "r", "a", "m", "b", "o", "t">>,
    <<"d", "i", "s", "c", "o", "r", "d", "b", "o", "t">>,
    <<"s", "l", "a", "c", "k", "b", "o", "t">>,
    <<"a", "p", "p", "l", "e", "b", "o", "t">>,
    <<"s", "e", "m", "r", "u", "s", "h", "b", "o", "t">>,
    <<"a", "h", "r", "e", "f", "s", "b", "o", "t">>,
    <<"m", "j", "1", "2", "b", "o", "t">>,
    <<"d", "o", "t", "b", "o", "t">>,
    <<"p", "e", "t", "a", "l", "b", "o", "t">>,
    <<"b", "y", "t", "e", "s", "p", "i", "d", "e", "r">>,
    <<"h", "e", "a", "d", "l", "e", "s", "s">>,
    <<"p", "h", "a", "n", "t", "o", "m">>,
    <<"s", "e", "l", "e", "n", "i", "u", "m">>,
    <<"p", "u", "p", "p", "e", "t", "e", "e", "r">>,
    <<"p", "l", "a", "y", "w", "r", "i", "g", "h", "t">>,
    <<"c", "y", "p", "r", "e", "s", "s">>,
    <<"e", "l", "e", "c", "t", "r", "o", "n">>,
    <<"w", "g", "e", "t">>,
    <<"c", "u", "r", "l">>,
    <<"h", "t", "t", "p", "i", "e">>,
    <<"p", "y", "t", "h", "o", "n", "-", "r", "e", "q", "u", "e", "s",
        "t", "s">>,
    <<"a", "x", "i", "o", "s">>,
    <<"f", "e", "t", "c", "h">>,
    <<"n", "o", "d", "e", "-", "f", "e", "t", "c", "h">>,
    <<"g", "o", "t", "/">>,
    <<"s", "c", "r", "a", "p", "y">> }

\* ClientRedirect.tsx:12-27 with patterns matched as they are written: the i
\* flag is missing.
detectBotCaseSensitive(ua) == \E p \in botPatterns : Test(p, ua)
\* ClientRedirect.tsx:12-27
detectBot(ua) == \E p \in botPatterns : TestI(p, ua)

\* ------------------------------------------- words of the classifier
\* The words the rules below look for, character by character.
Words ==
  [
    sWindowsNT10 |->
      <<"W", "i", "n", "d", "o", "w", "s", " ", "N", "T", " ",
        "1", "0">>,
    sWindowsNT6 |->
      <<"W", "i", "n", "d", "o", "w", "s", " ", "N", "T", " ",
        "6">>,
    sWindows |->
      <<"W", "i", "n", "d", "o", "w", "s">>,
    sMacOSX_ |->
      <<"M", "a", "c", " ", "O", "S", " ", "X", " ">>,
    sAndroid_ |->
      <<"A", "n", "d", "r", "o", "i", "d", " ">>,
    sIPhoneOS_ |->
      <<"i", "P", "h", "o", "n", "e", " ", "O", "S", " ">>,
    sIPad |->
      <<"i", "P", "a", "d">>,
    sOS_ |->
      <<"O", "S", " ">>,
    sIPhone |->
      <<"i", "P", "h", "o", "n", "e">>,
    sLinux |->
      <<"L", "i", "n", "u", "x">>,
    sCrOS |->
      <<"C", "r", "O", "S">>,
    sMobile |->
      <<"M", "o", "b", "i", "l", "e">>,
    sAndroid |->
      <<"A", "n", "d", "r", "o", "i", "d">>,
    sIPod |->
      <<"i", "P", "o", "d">>,
    sBlackBerry |->
      <<"B", "l", "a", "c", "k", "B", "e", "r", "r", "y">>,
    sIEMobile |->
      <<"I", "E", "M", "o", "b", "i", "l", "e">>,
    sOperaMini |->
      <<"O", "p", "e", "r", "a", " ", "M", "i", "n", "i">>,
    sTablet |->
      <<"T", "a", "b", "l", "e", "t">>,
    sEdg_ |->
      <<"E", "d", "g", "/">>,
    sOPR_ |->
      <<"O", "P", "R", "/">>,
    sOpera_ |->
      <<"O", "p", "e", "r", "a", "/">>,
    sChrome_ |->
      <<"C", "h", "r", "o", "m", "e", "/">>,
    sEdg |->
      <<"E", "d", "g">>,
    sSafari_ |->
      <<"S", "a", "f", "a", "r", "i", "/">>,
    sChrome |->
      <<"C", "h", "r", "o", "m", "e">>,
    sVersion_ |->
      <<"V", "e", "r", "s", "i", "o", "n", "/">>,
    sFirefox_ |->
      <<"F", "i", "r", "e", "f", "o", "x", "/">>,
    sMSIE_ |->
      <<"M", "S", "I", "E", " ">>,
    sTrident |->
      <<"T", "r", "i", "d", "e", "n", "t">>,
    sRv_ |->
      <<"r", "v", ":">>,
    sFirefox |->
      <<"F", "i", "r", "e", "f", "o", "x">>,
    sSafari |->
      <<"S", "a", "f", "a", "r", "i">>,
    sOpera |->
      <<"O", "p", "e", "r", "a">>,
    sOPR |->
      <<"O", "P", "R">>,
    sMacOS |->
      <<"M", "a", "c", " ", "O", "S">>,
    sIOS |->
      <<"i", "O", "S">>,
    refDirect |->
      <<"d", "i", "r", "e", "c", "t">>,
    sHttp |->
      <<"h", "t", "t", "p">>,
    sHttps |->
      <<"h", "t", "t", "p", "s">>,
    uaFban |->
      <<"f", "b", "a", "n">>,
    uaFbav |->
      <<"f", "b", "a", "v">>,
    uaFbIab |->
      <<"f", "b", "_", "i", "a", "b">>,
    uaMessenger |->
      <<"m", "e", "s", "s", "e", "n", "g", "e", "r">>,
    uaInstagram |->
      <<"i", "n", "s", "t", "a", "g", "r", "a", "m">>,
    uaTwitter |->
      <<"t", "w", "i", "t", "t", "e", "r">>,
    uaSpaceX_ |->
      <<" ", "x", "/">>,
    uaLinkedin |->
      <<"l", "i", "n", "k", "e", "d", "i", "n">>,
    uaWhatsapp |->
      <<"w", "h", "a", "t", "s", "a", "p", "p">>,
    uaTelegram |->
      <<"t", "e", "l", "e", "g", "r", "a", "m">>,
    uaSnapchat |->
      <<"s", "n", "a", "p", "c", "h", "a", "t">>,
    uaTiktok |->
      <<"t", "i", "k", "t", "o", "k">>,
    uaBytedance |->
      <<"b", "y", "t", "e", "d", "a", "n", "c", "e">>,
    uaMusicalLy |->
      <<"m", "u", "s", "i", "c", "a", "l", "_", "l", "y">>,
    uaPinterest |->
      <<"p", "i", "n", "t", "e", "r", "e", "s", "t">>,
    uaReddit |->
      <<"r", "e", "d", "d", "i", "t">>,
    uaDiscord |->
      <<"d", "i", "s", "c", "o", "r", "d">>,
    uaSlack |->
      <<"s", "l", "a", "c", "k">>,
    uaMicromessenger |->
      <<"m", "i", "c", "r", "o", "m", "e", "s", "s", "e",
        "n", "g", "e", "r">>,
    uaWechat |->
      <<"w", "e", "c", "h", "a", "t">>,
    uaLine_ |->
      <<"l", "i", "n", "e", "/">>,
    uaViber |->
      <<"v", "i", "b", "e", "r">>,
    uaSkype |->
      <<"s", "k", "y", "p", "e">>,
    uaYoutube |->
      <<"y", "o", "u", "t", "u", "b", "e">>,
    uaGsa_ |->
      <<"g", "s", "a", "/">>,
    uaGoogleapp |->
      <<"g", "o", "o", "g", "l", "e", "a", "p", "p">>,
    uaOutlook |->
      <<"o", "u", "t", "l", "o", "o", "k">>,
    uaTeams |->
      <<"t", "e", "a", "m", "s">>,
    refFacebookCom |->
      <<"f", "a", "c", "e", "b", "o", "o", "k", ".", "c",
        "o", "m">>,
    refFbCom |->
      <<"f", "b", ".", "c", "o", "m">>,
    refFbcdnNet |->
      <<"f", "b", "c", "d", "n", ".", "n", "e", "t">>,
    refInstagramCom |->
      <<"i", "n", "s", "t", "a", "g", "r", "a", "m", ".",
        "c", "o", "m">>,
    refTwitterCom |->
      <<"t", "w", "i", "t", "t", "e", "r", ".", "c", "o", "m">>,
    refTCo |->
      <<"t", ".", "c", "o">>,
    refXCom |->
      <<"x", ".", "c", "o", "m">>,
    refLinkedinCom |->
      <<"l", "i", "n", "k", "e", "d", "i", "n", ".", "c",
        "o", "m">>,
    refLnkdIn |->
      <<"l", "n", "k", "d", ".", "i", "n">>,
    refTiktokCom |->
      <<"t", "i", "k", "t", "o", "k", ".", "c", "o", "m">>,
    refPinterestCom |->
      <<"p", "i", "n", "t", "e", "r", "e", "s", "t", ".",
        "c", "o", "m">>,
    refPinIt |->
      <<"p", "i", "n", ".", "i", "t">>,
    refRedditCom |->
      <<"r", "e", "d", "d", "i", "t", ".", "c", "o", "m">>,
    refYoutubeCom |->
      <<"y", "o", "u", "t", "u", "b", "e", ".", "c", "o", "m">>,
    refYoutuBe |->
      <<"y", "o", "u", "t", "u", ".", "b", "e">>,
    refSnapchatCom |->
      <<"s", "n", "a", "p", "c", "h", "a", "t", ".", "c",
        "o", "m">>,
    refDiscordCom |->
      <<"d", "i", "s", "c", "o", "r", "d", ".", "c", "o", "m">>,
    refDiscordGg |->
      <<"d", "i", "s", "c", "o", "r", "d", ".", "g", "g">>,
    refGoogle_ |->
      <<"g", "o", "o", "g", "l", "e", ".">>,
    refBingCom |->
      <<"b", "i", "n", "g", ".", "c", "o", "m">>,
    refDuckduckgoCom |->
      <<"d", "u", "c", "k", "d", "u", "c", "k", "g", "o",
        ".", "c", "o", "m">>,
    refYahoo_ |->
      <<"y", "a", "h", "o", "o", ".">>,
    refBaiduCom |->
      <<"b", "a", "i", "d", "u", ".", "c", "o", "m">>,
    refMailGoogleCom |->
      <<"m", "a", "i", "l", ".", "g", "o", "o", "g", "l",
        "e", ".", "c", "o", "m">>,
    refGmailCom |->
      <<"g", "m", "a", "i", "l", ".", "c", "o", "m">>,
    refOutlookLiveCom |->
      <<"o", "u", "t", "l", "o", "o", "k", ".", "l", "i",
        "v", "e", ".", "c", "o", "m">>,
    refOutlookOffice |->
      <<"o", "u", "t", "l", "o", "o", "k", ".", "o", "f",
        "f", "i", "c", "e">>,
    refMailYahooCom |->
      <<"m", "a", "i", "l", ".", "y", "a", "h", "o", "o",
        ".", "c", "o", "m">>,
    refFacebook |->
      <<"f", "a", "c", "e", "b", "o", "o", "k">>,
    refInstagram |->
      <<"i", "n", "s", "t", "a", "g", "r", "a", "m">>,
    refTwitter |->
      <<"t", "w", "i", "t", "t", "e", "r">>,
    refLinkedin |->
      <<"l", "i", "n", "k", "e", "d", "i", "n">>,
    refReddit |->
      <<"r", "e", "d", "d", "i", "t">>,
    refTiktok |->
      <<"t", "i", "k", "t", "o", "k">>,
    refSlack |->
      <<"s", "l", "a", "c", "k">>,
    refDiscord |->
      <<"d", "i", "s", "c", "o", "r", "d">>,
    refBing_ |->
      <<"b", "i", "n", "g", ".">>,
    refDuckduckgo |->
      <<"d", "u", "c", "k", "d", "u", "c", "k", "g", "o">>,
    sEnUS |->
      <<"e", "n", "-", "U", "S">>,
    sWin32 |->
      <<"W", "i", "n", "3", "2">>,
    sCanvasTail |->
      <<"A", "A", "A", "A", "A", "E", "l", "F", "T", "k", "S",
        "u", "Q", "m", "C", "C">>,
    sNoCanvas |->
      <<"n", "o", "-", "c", "a", "n", "v", "a", "s">>,
    sCanvasError |->
      <<"c", "a", "n", "v", "a", "s", "-", "e", "r", "r", "o",
        "r">>,
    sUnknown_ |->
      <<"u", "n", "k", "n", "o", "w", "n", "-">>
  ]

\* -------------------------------------------------------- getDeviceInfo
\* /pat/.test(s) for a pattern of characters and dots.
TestPat(pat, s) == \E i \in (1..Len(s)) : MatchAt(pat, s, i)

\* /first.*word([cls]+)/.test(s)
TestThenCapture(first, word, cls, s) ==
  \E i \in (1..Len(s)), j \in (1..Len(s)) :
    MatchAt(first, s, i) /\ j >= i + Len(first) /\ CaptureAt(word, cls, s, j)

\* s.match(/(?:w1|w2)([cls]+)/)[1] for a set of words no two of which match
\* at the same position: the leftmost match, or "" without a match.
CaptureAny(words, cls, s) ==
  LET at == {i \in (1..Len(s)) : \E w \in words : CaptureAt(w, cls, s, i)}
  IN IF at = {} THEN <<>>
     ELSE LET i == Min(at)
              w == CHOOSE x \in words : CaptureAt(x, cls, s, i)
          IN RunFrom(s, i + Len(w), cls)

\* s.match(/(?:f1|f2).*word([cls]+)/)[1]: the match starts at the leftmost
\* f1 or f2 that has a "word + class" after it, the greedy .* then runs to
\* the last such "word"; "" without a match.
CaptureLast(firsts, word, cls, s) ==
  LET After(i) == {j \in (1..Len(s)) :
                     /\ \E f \in firsts : MatchAt(f, s, i) /\ j >= i + Len(f)
                     /\ CaptureAt(word, cls, s, j)}
      starts == {i \in (1..Len(s)) : After(i) # {}}
  IN IF starts = {} THEN <<>>
     ELSE RunFrom(s, Max(After(Min(starts))) + Len(word), cls)

\* The alternatives of the mobile pattern (ClientRedirect.tsx:251).
MobileWords ==
  {Words.sMobile, Words.sAndroid, Words.sIPhone, Words.sIPad, Words.sIPod, Words.sBlackBerry, Words.sIEMobile,
    Words.sOperaMini}

\* /Mobile|Android|iPhone|iPad|iPod|BlackBerry|IEMobile|Opera Mini/i
\* (ClientRedirect.tsx:251)
isMobile(ua) == \E w \in MobileWords : TestI(w, ua)

\* /iPad|Android(?!.*Mobile)|Tablet/i (ClientRedirect.tsx:252): an "Android"
\* counts when no "Mobile" follows it.
isTablet(ua) ==
  LET l == toLowerCase(ua)
      android == toLowerCase(Words.sAndroid)
  IN \/ Includes(l, toLowerCase(Words.sIPad))
     \/ \E i \in (1..Len(l)) :
          /\ MatchAt(android, l, i)
          /\ ~Includes(SubSeq(l, i + Len(android), Len(l)),
                       toLowerCase(Words.sMobile))
     \/ Includes(l, toLowerCase(Words.sTablet))

\* ClientRedirect.tsx:254-256 with the two tests in the other order.
DeviceTypeMobileFirst(tablet, mobile) ==
  IF mobile THEN "mobile" ELSE IF tablet THEN "tablet" ELSE "desktop"
\* ClientRedirect.tsx:254-256
DeviceType(tablet, mobile) ==
  IF tablet THEN "tablet" ELSE IF mobile THEN "mobile" ELSE "desktop"

OsResult(os, osVersion) == [os |-> os, osVersion |-> osVersion]

\* The OS rules of ClientRedirect.tsx:259-282 with the Linux rule tried
\* before the Android rule.
DetectOsLinuxFirst(ua) ==
  IF Test(Words.sWindowsNT10, ua)
       THEN OsResult("Windows", <<"1", "0">>)
  ELSE IF TestPat(Words.sWindowsNT6 \o <<AnyChar, "3">>, ua)
       THEN OsResult("Windows", <<"8", ".", "1">>)
  ELSE IF TestPat(Words.sWindowsNT6 \o <<AnyChar, "2">>, ua)
       THEN OsResult("Windows", <<"8">>)
  ELSE IF TestPat(Words.sWindowsNT6 \o <<AnyChar, "1">>, ua)
       THEN OsResult("Windows", <<"7">>)
  ELSE IF Test(Words.sWindows, ua)
       THEN OsResult("Windows", <<>>)
  ELSE IF TestCapture(Words.sMacOSX_, Chars.digitsUnderscore, ua)
       THEN OsResult("macOS", Dotted(Capture(Words.sMacOSX_, Chars.digitsUnderscore, ua)))
  ELSE IF Test(Words.sLinux, ua)
       THEN OsResult("Linux", <<>>)
  ELSE IF TestCapture(Words.sAndroid_, Chars.digitsDot, ua)
       THEN OsResult("Android", Capture(Words.sAndroid_, Chars.digitsDot, ua))
  ELSE IF \/ TestCapture(Words.sIPhoneOS_, Chars.digitsUnderscore, ua)
          \/ TestThenCapture(Words.sIPad, Words.sOS_, Chars.digitsUnderscore, ua)
       THEN OsResult("iOS", Dotted(CaptureLast({Words.sIPhone, Words.sIPad}, Words.sOS_,
                                                Chars.digitsUnderscore, ua)))
  ELSE IF Test(Words.sCrOS, ua)
       THEN OsResult("Chrome OS", <<>>)
  ELSE OsResult("Unknown", <<>>)
\* The OS rules of getDeviceInfo (ClientRedirect.tsx:259-282), first match
\* wins.
DetectOs(ua) ==
  IF Test(Words.sWindowsNT10, ua)
       THEN OsResult("Windows", <<"1", "0">>)
  ELSE IF TestPat(Words.sWindowsNT6 \o <<AnyChar, "3">>, ua)
       THEN OsResult("Windows", <<"8", ".", "1">>)
  ELSE IF TestPat(Words.sWindowsNT6 \o <<AnyChar, "2">>, ua)
       THEN OsResult("Windows", <<"8">>)
  ELSE IF TestPat(Words.sWindowsNT6 \o <<AnyChar, "1">>, ua)
       THEN OsResult("Windows", <<"7">>)
  ELSE IF Test(Words.sWindows, ua)
       THEN OsResult("Windows", <<>>)
  ELSE IF TestCapture(Words.sMacOSX_, Chars.digitsUnderscore, ua)
       THEN OsResult("macOS", Dotted(Capture(Words.sMacOSX_, Chars.digitsUnderscore, ua)))
  ELSE IF TestCapture(Words.sAndroid_, Chars.digitsDot, ua)
       THEN OsResult("Android", Capture(Words.sAndroid_, Chars.digitsDot, ua))
  ELSE IF \/ TestCapture(Words.sIPhoneOS_, Chars.digitsUnderscore, ua)
          \/ TestThenCapture(Words.sIPad, Words.sOS_, Chars.digitsUnderscore, ua)
       THEN OsResult("iOS", Dotted(CaptureLast({Words.sIPhone, Words.sIPad}, Words.sOS_,
                                                Chars.digitsUnderscore, ua)))
  ELSE IF Test(Words.sLinux, ua)
       THEN OsResult("Linux", <<>>)
  ELSE IF Test(Words.sCrOS, ua)
       THEN OsResult("Chrome OS", <<>>)
  ELSE OsResult("Unknown", <<>>)

BrowserResult(browser, browserVersion) ==
  [browser |-> browser, browserVersion |-> browserVersion]

\* The browser rules of getDeviceInfo (ClientRedirect.tsx:285-316), first
\* match wins.
DetectBrowser(ua) ==
  IF TestCapture(Words.sEdg_, Chars.digitsDot, ua)
  THEN BrowserResult("Edge", Capture(Words.sEdg_, Chars.digitsDot, ua))
  ELSE IF \/ TestCapture(Words.sOPR_, Chars.digitsDot, ua)
          \/ TestCapture(Words.sOpera_, Chars.digitsDot, ua)
       THEN BrowserResult("Opera", CaptureAny({Words.sOPR_, Words.sOpera_}, Chars.digitsDot, ua))
  ELSE IF TestCapture(Words.sChrome_, Chars.digitsDot, ua) /\ ~Test(Words.sEdg, ua)
       THEN BrowserResult("Chrome", Capture(Words.sChrome_, Chars.digitsDot, ua))
  ELSE IF TestCapture(Words.sSafari_, Chars.digitsDot, ua) /\ ~Test(Words.sChrome, ua)
       THEN BrowserResult("Safari", Capture(Words.sVersion_, Chars.digitsDot, ua))
  ELSE IF TestCapture(Words.sFirefox_, Chars.digitsDot, ua)
       THEN BrowserResult("Firefox", Capture(Words.sFirefox_, Chars.digitsDot, ua))
  ELSE IF \/ TestCapture(Words.sMSIE_, Chars.digitsDot, ua)
          \/ TestThenCapture(Words.sTrident, Words.sRv_, Chars.digitsDot, ua)
       THEN BrowserResult("Internet Explorer",
                          CaptureAny({Words.sMSIE_, Words.sRv_}, Chars.digitsDot, ua))
  ELSE BrowserResult("Unknown", <<>>)

\* getDeviceInfo of the redirect page (ClientRedirect.tsx:250-319)
getDeviceInfo(ua) ==
  LET o == DetectOs(ua)
      b == DetectBrowser(ua)
  IN [deviceType |-> DeviceType(isTablet(ua), isMobile(ua)),
      os |-> o.os,
      osVersion |-> o.osVersion,
      browser |-> b.browser,
      browserVersion |-> b.browserVersion,
      isMobile |-> isMobile(ua),
      isTablet |-> isTablet(ua)]

\* The mobile and the tablet pattern of the file page
\* (ClientRedirect.tsx:619-620).
isMobileFile(ua) == \E w \in MobileWords : TestI(w, ua)
isTabletFile(ua) == TestI(Words.sTablet, ua) \/ TestI(Words.sIPad, ua)

\* getDeviceInfo of the file page (ClientRedirect.tsx:618-641): the browser and
\* the OS come from ordered includes() tests and carry no version.
getDeviceInfoFile(ua) ==
  LET browser ==
        IF Includes(ua, Words.sFirefox) THEN "Firefox"
        ELSE IF Includes(ua, Words.sEdg) THEN "Edge"
        ELSE IF Includes(ua, Words.sChrome) THEN "Chrome"
        ELSE IF Includes(ua, Words.sSafari) THEN "Safari"
        ELSE IF Includes(ua, Words.sOpera) \/ Includes(ua, Words.sOPR)
             THEN "Opera"
        ELSE "Unknown"
      os ==
        IF Includes(ua, Words.sWindows) THEN "Windows"
        ELSE IF Includes(ua, Words.sMacOS) THEN "macOS"
        ELSE IF Includes(ua, Words.sLinux) THEN "Linux"
        ELSE IF Includes(ua, Words.sAndroid) THEN "Android"
        ELSE IF \/ Includes(ua, Words.sIOS)
                \/ Includes(ua, Words.sIPhone)
                \/ Includes(ua, Words.sIPad)
             THEN "iOS"
        ELSE "Unknown"
  IN [deviceType |-> IF isTabletFile(ua) THEN "tablet"
                     ELSE IF isMobileFile(ua) THEN "mobile" ELSE "desktop",
      browser |-> browser,
      os |-> os]

\* The mobile and the tablet pattern of the image page
\* (page.tsx:23-24).
isMobileImage(ua) == \E w \in MobileWords : TestI(w, ua)
isTabletImage(ua) == TestI(Words.sTablet, ua) \/ TestI(Words.sIPad, ua)

\* getDeviceInfo of the image page (page.tsx:22-45): the browser and
\* the OS come from ordered includes() tests and carry no version.
getDeviceInfoImage(ua) ==
  LET browser ==
        IF Includes(ua, Words.sFirefox) THEN "Firefox"
        ELSE IF Includes(ua, Words.sEdg) THEN "Edge"
        ELSE IF Includes(ua, Words.sChrome) THEN "Chrome"
        ELSE IF Includes(ua, Words.sSafari) THEN "Safari"
        ELSE IF Includes(ua, Words.sOpera) \/ Includes(ua, Words.sOPR)
             THEN "Opera"
        ELSE "Unknown"
      os ==
        IF Includes(ua, Words.sWindows) THEN "Windows"
        ELSE IF Includes(ua, Words.sMacOS) THEN "macOS"
        ELSE IF Includes(ua, Words.sLinux) THEN "Linux"
        ELSE IF Includes(ua, Words.sAndroid) THEN "Android"
        ELSE IF \/ Includes(ua, Words.sIOS)
                \/ Includes(ua, Words.sIPhone)
                \/ Includes(ua, Words.sIPad)
             THEN "iOS"
        ELSE "Unknown"
  IN [deviceType |-> IF isTabletImage(ua) THEN "tablet"
                     ELSE IF isMobileImage(ua) THEN "mobile" ELSE "desktop",
      browser |-> browser,
      os |-> os]

\* ------------------------------------------------------- detectPlatform
\* The in-app browser signatures of detectPlatform, in the order of the
\* tests (ClientRedirect.tsx:91-171).
InAppRules ==
  << [sigs |-> {Words.uaFban, Words.uaFbav, Words.uaFbIab},
      platform |-> "Facebook", appName |-> "Facebook App"],
     [sigs |-> {Words.uaMessenger},
      platform |-> "Messenger", appName |-> "Facebook Messenger"],
     [sigs |-> {Words.uaInstagram},
      platform |-> "Instagram", appName |-> "Instagram App"],
     [sigs |-> {Words.uaTwitter, Words.uaSpaceX_},
      platform |-> "Twitter", appName |-> "Twitter/X App"],
     [sigs |-> {Words.uaLinkedin},
      platform |-> "LinkedIn", appName |-> "LinkedIn App"],
     [sigs |-> {Words.uaWhatsapp},
      platform |-> "WhatsApp", appName |-> "WhatsApp"],
     [sigs |-> {Words.uaTelegram},
      platform |-> "Telegram", appName |-> "Telegram"],
     [sigs |-> {Words.uaSnapchat},
      platform |-> "Snapchat", appName |-> "Snapchat"],
     [sigs |-> {Words.uaTiktok, Words.uaBytedance, Words.uaMusicalLy},
      platform |-> "TikTok", appName |-> "TikTok"],
     [sigs |-> {Words.uaPinterest},
      platform |-> "Pinterest", appName |-> "Pinterest App"],
     [sigs |-> {Words.uaReddit},
      platform |-> "Reddit", appName |-> "Reddit App"],
     [sigs |-> {Words.uaDiscord},
      platform |-> "Discord", appName |-> "Discord"],
     [sigs |-> {Words.uaSlack},
      platform |-> "Slack", appName |-> "Slack"],
     [sigs |-> {Words.uaMicromessenger, Words.uaWechat},
      platform |-> "WeChat", appName |-> "WeChat"],
     [sigs |-> {Words.uaLine_},
      platform |-> "Line", appName |-> "Line"],
     [sigs |-> {Words.uaViber},
      platform |-> "Viber", appName |-> "Viber"],
     [sigs |-> {Words.uaSkype},
      platform |-> "Skype", appName |-> "Skype"],
     [sigs |-> {Words.uaYoutube},
      platform |-> "YouTube", appName |-> "YouTube App"],
     [sigs |-> {Words.uaGsa_, Words.uaGoogleapp},
      platform |-> "Google App", appName |-> "Google App"],
     [sigs |-> {Words.uaOutlook, Words.uaTeams},
      platform |-> "Microsoft", appName |-> "Microsoft App"] >>

\* The referrer table of detectPlatform, in the order of the tests
\* (ClientRedirect.tsx:178-236).
ReferrerRules ==
  << [hosts |-> {Words.refFacebookCom, Words.refFbCom, Words.refFbcdnNet},
      platform |-> "Facebook"],
     [hosts |-> {Words.refInstagramCom},
      platform |-> "Instagram"],
     [hosts |-> {Words.refTwitterCom, Words.refTCo, Words.refXCom},
      platform |-> "Twitter"],
     [hosts |-> {Words.refLinkedinCom, Words.refLnkdIn},
      platform |-> "LinkedIn"],
     [hosts |-> {Words.refTiktokCom},
      platform |-> "TikTok"],
     [hosts |-> {Words.refPinterestCom, Words.refPinIt},
      platform |-> "Pinterest"],
     [hosts |-> {Words.refRedditCom},
      platform |-> "Reddit"],
     [hosts |-> {Words.refYoutubeCom, Words.refYoutuBe},
      platform |-> "YouTube"],
     [hosts |-> {Words.refSnapchatCom},
      platform |-> "Snapchat"],
     [hosts |-> {Words.refDiscordCom, Words.refDiscordGg},
      platform |-> "Discord"],
     [hosts |-> {Words.refGoogle_},
      platform |-> "Google Search"],
     [hosts |-> {Words.refBingCom},
      platform |-> "Bing Search"],
     [hosts |-> {Words.refDuckduckgoCom},
      platform |-> "DuckDuckGo"],
     [hosts |-> {Words.refYahoo_},
      platform |-> "Yahoo Search"],
     [hosts |-> {Words.refBaiduCom},
      platform |-> "Baidu"],
     [hosts |-> {Words.refMailGoogleCom, Words.refGmailCom},
      platform |-> "Gmail"],
     [hosts |-> {Words.refOutlookLiveCom, Words.refOutlookOffice},
      platform |-> "Outlook"],
     [hosts |-> {Words.refMailYahooCom},
      platform |-> "Yahoo Mail"] >>

\* The index of the first rule one of whose words is part of s, 0 when no
\* rule matches: the chain of if statements returns at the first hit.
FirstRule(rs, key, s) ==
  LET hits == {i \in DOMAIN rs : \E w \in rs[i][key] : Includes(s, w)}
  IN IF hits = {} THEN 0 ELSE Min(hits)


\* The position of the first character of s that is in cs, 0 without one.
IndexOf(s, cs) ==
  LET at == {i \in (1..Len(s)) : s[i] \in cs}
  IN IF at = {} THEN 0 ELSE Min(at)
\* The position of the last character of s that is in cs, 0 without one.
LastIndexOf(s, cs) ==
  LET at == {i \in (1..Len(s)) : s[i] \in cs}
  IN IF at = {} THEN 0 ELSE Max(at)
\* s up to, not including, its first character in cs.
Before(s, cs) ==
  IF IndexOf(s, cs) = 0 THEN s ELSE SubSeq(s, 1, IndexOf(s, cs) - 1)

\* new URL(ref).hostname (ClientRedirect.tsx:176), without a base URL: the
\* constructor throws when ref has no scheme, or an http(s) URL has no host
\* or a blank in its host.  The host is what follows the slashes up to the
\* path, query or fragment, less the credentials and the port, lower-cased.
ParseUrl(ref) ==
  LET colon == IndexOf(ref, {":"})
      scheme == toLowerCase(SubSeq(ref, 1, colon - 1))
      validScheme ==
        /\ colon > 1
        /\ ref[1] \in Chars.letters
        /\ \A i \in 2..(colon - 1) : ref[i] \in Chars.scheme
      special == scheme \in {Words.sHttp, Words.sHttps}
      rest == SubSeq(ref, colon + 1, Len(ref))
      slashes == Len(RunFrom(rest, 1, {"/"}))
      hasAuthority == IF special THEN TRUE ELSE slashes >= 2
      skipped == IF special THEN slashes ELSE 2
      authority == Before(SubSeq(rest, skipped + 1, Len(rest)), {"/", "?", "#"})
      hostPort == SubSeq(authority, LastIndexOf(authority, {"@"}) + 1,
                         Len(authority))
      host == Before(hostPort, {":"})
  IN IF ~validScheme THEN [ok |-> FALSE, hostname |-> <<>>]
     ELSE IF ~hasAuthority THEN [ok |-> TRUE, hostname |-> <<>>]
     ELSE IF special /\ (host = <<>> \/ IndexOf(host, {" "}) # 0)
          THEN [ok |-> FALSE, hostname |-> <<>>]
     ELSE [ok |-> TRUE, hostname |-> toLowerCase(host)]

PlatformResult(platform, isInAppBrowser, appName) ==
  [threw |-> FALSE, platform |-> platform,
   isInAppBrowser |-> isInAppBrowser, appName |-> appName]

\* detectPlatform left by an exception instead of a return.
PlatformThrown ==
  [threw |-> TRUE, platform |-> Null, isInAppBrowser |-> FALSE,
   appName |-> Null]

\* ClientRedirect.tsx:245-246
DirectAccess == PlatformResult("Direct", FALSE, Null)

\* ClientRedirect.tsx:175-243 without the try/catch: the TypeError of
\* new URL leaves detectPlatform.
InvalidUrlUncaught == PlatformThrown
\* The catch of ClientRedirect.tsx:240-242 swallows the TypeError of new URL
\* and the function goes on to its last return.
InvalidUrl == DirectAccess

\* detectPlatform of the redirect page (ClientRedirect.tsx:83-247)
detectPlatform(ua, ref) ==
  LET app == FirstRule(InAppRules, "sigs", toLowerCase(ua))
  IN IF app # 0
     THEN PlatformResult(InAppRules[app].platform, TRUE,
                         InAppRules[app].appName)
     ELSE IF ref # <<>> /\ ref # Words.refDirect
     THEN LET parsed == ParseUrl(ref)
              refHost == toLowerCase(parsed.hostname)
              row == FirstRule(ReferrerRules, "hosts", refHost)
          IN IF ~parsed.ok THEN InvalidUrl
             ELSE IF row # 0
             THEN PlatformResult(ReferrerRules[row].platform, FALSE, Null)
             ELSE PlatformResult("Web", FALSE, Null)
     ELSE DirectAccess

\* detectPlatform of the file page (ClientRedirect.tsx:664-689): one ordered list
\* of tests on the lower-cased user agent and the lower-cased referrer; the
\* result is the label alone.
detectPlatformFile(ua, ref) ==
  LET uaLower == toLowerCase(ua)
      refLower == toLowerCase(ref)
      InUa(w) == Includes(uaLower, w)
      InRef(w) == Includes(refLower, w)
  IN IF InUa(Words.uaFban) \/ InUa(Words.uaFbav) \/ InRef(Words.refFacebook) THEN "Facebook"
     ELSE IF InUa(Words.uaInstagram) \/ InRef(Words.refInstagram) THEN "Instagram"
     ELSE IF InUa(Words.uaTwitter) \/ InRef(Words.refTwitter) \/ InRef(Words.refTCo)
          THEN "Twitter/X"
     ELSE IF InUa(Words.uaLinkedin) \/ InRef(Words.refLinkedin) THEN "LinkedIn"
     ELSE IF InRef(Words.refReddit) THEN "Reddit"
     ELSE IF InUa(Words.uaTiktok) \/ InRef(Words.refTiktok) THEN "TikTok"
     ELSE IF InUa(Words.uaWhatsapp) THEN "WhatsApp"
     ELSE IF InUa(Words.uaTelegram) THEN "Telegram"
     ELSE IF InUa(Words.uaSlack) \/ InRef(Words.refSlack) THEN "Slack"
     ELSE IF InUa(Words.uaDiscord) \/ InRef(Words.refDiscord) THEN "Discord"
     ELSE IF InRef(Words.refGoogle_) THEN "Google Search"
     ELSE IF InRef(Words.refBing_) THEN "Bing"
     ELSE IF InRef(Words.refDuckduckgo) THEN "DuckDuckGo"
     ELSE IF ref = <<>> \/ ref = Words.refDirect THEN "Direct"
     ELSE "Other"

\* detectPlatform of the image page (page.tsx:68-93): one ordered list
\* of tests on the lower-cased user agent and the lower-cased referrer; the
\* result is the label alone.
detectPlatformImage(ua, ref) ==
  LET uaLower == toLowerCase(ua)
      refLower == toLowerCase(ref)
      InUa(w) == Includes(uaLower, w)
      InRef(w) == Includes(refLower, w)
  IN IF InUa(Words.uaFban) \/ InUa(Words.uaFbav) \/ InRef(Words.refFacebook) THEN "Facebook"
     ELSE IF InUa(Words.uaInstagram) \/ InRef(Words.refInstagram) THEN "Instagram"
     ELSE IF InUa(Words.uaTwitter) \/ InRef(Words.refTwitter) \/ InRef(Words.refTCo)
          THEN "Twitter/X"
     ELSE IF InUa(Words.uaLinkedin) \/ InRef(Words.refLinkedin) THEN "LinkedIn"
     ELSE IF InRef(Words.refReddit) THEN "Reddit"
     ELSE IF InUa(Words.uaTiktok) \/ InRef(Words.refTiktok) THEN "TikTok"
     ELSE IF InUa(Words.uaWhatsapp) THEN "WhatsApp"
     ELSE IF InUa(Words.uaTelegram) THEN "Telegram"
     ELSE IF InUa(Words.uaSlack) \/ InRef(Words.refSlack) THEN "Slack"
     ELSE IF InUa(Words.uaDiscord) \/ InRef(Words.refDiscord) THEN "Discord"
     ELSE IF InRef(Words.refGoogle_) THEN "Google Search"
     ELSE IF InRef(Words.refBing_) THEN "Bing"
     ELSE IF InRef(Words.refDuckduckgo) THEN "DuckDuckGo"
     ELSE IF ref = <<>> \/ ref = Words.refDirect THEN "Direct"
     ELSE "Other"

\* ----------------------------------------------------- generateVisitorId
\* String.prototype.charCodeAt for one character.  Ascii holds the printable
\* ASCII characters in the order of their codes, from 32 on; the double quote,
\* the backslash and the backtick, which no input holds, are spelled out.
CodeOf ==
  LET Ascii ==
        <<" ", "!", "quote", "#", "$", "%", "&", "'", "(", ")", "*", "+", ",",
          "-", ".", "/", "0", "1", "2", "3", "4", "5", "6", "7", "8", "9", ":",
          ";", "<", "=", ">", "?", "@", "A", "B", "C", "D", "E", "F", "G", "H",
          "I", "J", "K", "L", "M", "N", "O", "P", "Q", "R", "S", "T", "U", "V",
          "W", "X", "Y", "Z", "[", "backslash", "]", "^", "_", "backtick", "a",
          "b", "c", "d", "e", "f", "g", "h", "i", "j", "k", "l", "m", "n", "o",
          "p", "q", "r", "s", "t", "u", "v", "w", "x", "y", "z", "{", "|", "}",
          "~">>
  IN [c \in {Ascii[i] : i \in DOMAIN Ascii} |->
        31 + CHOOSE i \in DOMAIN Ascii : Ascii[i] = c]

\* 2^16
HalfWord == 256 * 256

\* A JavaScript number that is an integer: hi * 2^16 + lo with lo in
\* 0..2^16-1, so that the numbers beyond 32 bits that the loop forms before
\* it wraps them are values too.
Halves(hi, lo) == [hi |-> hi + lo \div HalfWord, lo |-> lo % HalfWord]

\* ToInt32 of the bitwise operators: the number modulo 2^32 as a signed
\* 32-bit integer.
ToInt32(n) ==
  LET h == n.hi % HalfWord
  IN [hi |-> IF h >= HalfWord \div 2 THEN h - HalfWord ELSE h, lo |-> n.lo]

\* The loop body of ClientRedirect.tsx:50-52 with line 52,
\* hash = hash & hash, left out.
HashStepNoWrap(hash, code) ==
  LET operand == ToInt32(hash)
      shifted == ToInt32(Halves(operand.hi * 32, operand.lo * 32))
  IN Halves(shifted.hi - hash.hi, shifted.lo - hash.lo + code)
\* One round of the loop of ClientRedirect.tsx:49-53:
\* hash = ((hash << 5) - hash) + char; hash = hash & hash.  The shift
\* converts its operand to 32 bits and gives a 32-bit integer, the
\* subtraction and the addition are those of numbers, and the & converts
\* their result to 32 bits.
HashStep(hash, code) ==
  LET operand == ToInt32(hash)
      shifted == ToInt32(Halves(operand.hi * 32, operand.lo * 32))
  IN ToInt32(Halves(shifted.hi - hash.hi, shifted.lo - hash.lo + code))

\* The loop of ClientRedirect.tsx:49-53 over the characters i..j of str,
\* entered with the given hash: the first half of the range, then the
\* second half, which visits the characters in their order.  The hash
\* after the first half is a number before the second half starts.
RECURSIVE HashRange(_, _, _, _)
HashRange(hash, str, i, j) ==
  IF i > j THEN hash
  ELSE IF i = j THEN HashStep(hash, CodeOf[str[i]])
  ELSE LET mid == (i + j) \div 2
           half == HashRange(hash, str, i, mid)
       IN IF half.hi \in Int THEN HashRange(half, str, mid + 1, j)
          ELSE half

\* ClientRedirect.tsx:47-53: the hash of str, from 0.
HashOf(str) == HashRange(Halves(0, 0), str, 1, Len(str))

\* The digits of Number.prototype.toString(36).
Base36 ==
  <<"0", "1", "2", "3", "4", "5", "6", "7", "8", "9", "a", "b", "c", "d",
      "e", "f", "g", "h", "i", "j", "k", "l", "m", "n", "o", "p", "q", "r",
      "s", "t", "u", "v", "w", "x", "y", "z">>

\* n.toString(radix) for a natural number n and a radix up to 36, by long
\* division on the two halves of n.
RECURSIVE ToRadix(_, _)
ToRadix(n, radix) ==
  LET low == (n.hi % radix) * HalfWord + n.lo
      quotient == Halves(n.hi \div radix, low \div radix)
      digit == <<Base36[(low % radix) + 1]>>
  IN IF quotient.hi = 0 /\ quotient.lo = 0 THEN digit
     ELSE ToRadix(quotient, radix) \o digit

\* The string of a number inside Array.prototype.join: decimal digits
\* after a minus sign for a negative number.
NumberString(n) ==
  IF n < 0 THEN <<"-">> \o ToRadix(Halves(0, 0 - n), 10)
  ELSE ToRadix(Halves(0, n), 10)

\* Math.abs(hash).toString(36) (ClientRedirect.tsx:56).
AbsBase36(hash) ==
  ToRadix(IF hash.hi < 0 THEN Halves(0 - hash.hi, 0 - hash.lo) ELSE hash, 36)

\* Array.prototype.join('|')
RECURSIVE Join(_)
Join(parts) ==
  IF Len(parts) = 0 THEN <<>>
  ELSE IF Len(parts) = 1 THEN parts[1]
  ELSE parts[1] \o <<"|">> \o Join(Tail(parts))

\* What the page finds of the browser APIs used by generateVisitorId.
\* canvas: "ok", "noContext" (getContext returns null) or "error" (document
\* is missing, createElement or toDataURL throws).
Envs ==
  [navigator : BOOLEAN, screen : BOOLEAN,
   canvas : {"ok", "noContext", "error"}]
FullEnv == [navigator |-> TRUE, screen |-> TRUE, canvas |-> "ok"]

\* The signals of the visitor's device next to the user agent
\* (ClientRedirect.tsx:34-41) and the tail of the canvas data URL
\* (ClientRedirect.tsx:76).
Device ==
  [language |-> Words.sEnUS,
   width |-> 1920, height |-> 1080, colorDepth |-> 24,
   timezoneOffset |-> 0 - 60, hardwareConcurrency |-> 8,
   deviceMemory |-> 8, maxTouchPoints |-> 0,
   platform |-> Words.sWin32,
   canvasTail |-> Words.sCanvasTail]

\* What a function returns, or that it threw.
Returned(v) == [threw |-> FALSE, value |-> v]
Thrown == [threw |-> TRUE, value |-> <<>>]

\* ClientRedirect.tsx:63-80 without the try/catch.
getCanvasFingerprintUncaught(env) ==
  IF env.canvas = "error" THEN Thrown
  ELSE IF env.canvas = "noContext" THEN Returned(Words.sNoCanvas)
  ELSE Returned(Device.canvasTail)
\* getCanvasFingerprint (ClientRedirect.tsx:63-80)
getCanvasFingerprint(env) ==
  IF env.canvas = "error" THEN Returned(Words.sCanvasError)
  ELSE IF env.canvas = "noContext" THEN Returned(Words.sNoCanvas)
  ELSE Returned(Device.canvasTail)

\* The last four characters of Date.now().toString(36).
TimeSuffixes ==
  { <<"k", "3", "z", "q">>,
    <<"0", "0", "0", "0">> }
\* Math.random().toString(36).slice(2, 10): up to eight characters.
RandomSuffixes ==
  { <<>>,
    <<"4", "f", "z", "y", "o", "8", "2", "m">> }

\* The components of ClientRedirect.tsx:32-44, joined.
Components(ua, canvas) ==
  Join(<< ua,
          Device.language,
          NumberString(Device.width) \o <<"x">> \o NumberString(Device.height),
          NumberString(Device.colorDepth),
          NumberString(Device.timezoneOffset),
          NumberString(Device.hardwareConcurrency),
          NumberString(Device.deviceMemory),
          NumberString(Device.maxTouchPoints),
          Device.platform,
          canvas >>)

\* generateVisitorId (ClientRedirect.tsx:30-60): time is the suffix taken
\* from Date.now(), random the one taken from Math.random().  A missing
\* navigator or screen, or a throw of getCanvasFingerprint, ends in the
\* catch.
generateVisitorId(env, ua, time, random) ==
  LET canvas == getCanvasFingerprint(env)
  IN IF ~env.navigator \/ ~env.screen \/ canvas.threw
     THEN Returned(Words.sUnknown_ \o random)
     ELSE LET str == Components(ua, canvas.value)
          IN Returned(AbsBase36(HashOf(str)) \o time)

\* ------------------------------------------------- classifier inputs
\* User agents a visitor can arrive with.
\* the Android phone of the scenario
Agents ==
  [
    UaScenario |->
      <<"M", "o", "z", "i", "l", "l", "a", "/", "5", ".", "0", " ", "(", "L",
        "i", "n", "u", "x", ";", " ", "A", "n", "d", "r", "o", "i", "d", " ",
        "1", "0", ";", " ", "S", "M", "-", "G", "9", "6", "0", "F", ")", " ",
        ".", ".", ".", " ", "C", "h", "r", "o", "m", "e", "/", "9", "0", ".",
        "0", " ", "M", "o", "b", "i", "l", "e">>,
    \* an iPad
    UaIPad |->
      <<"M", "o", "z", "i", "l", "l", "a", "/", "5", ".", "0", " ", "(", "i",
        "P", "a", "d", ";", " ", "C", "P", "U", " ", "O", "S", " ", "1", "3",
        "_", "2", " ", "l", "i", "k", "e", " ", "M", "a", "c", " ", "O", "S",
        " ", "X", ")", " ", "V", "e", "r", "s", "i", "o", "n", "/", "1", "3",
        ".", "0", " ", "S", "a", "f", "a", "r", "i", "/", "6", "0", "4", ".",
        "1">>,
    \* an Android tablet
    UaAndroidTablet |->
      <<"M", "o", "z", "i", "l", "l", "a", "/", "5", ".", "0", " ", "(", "L",
        "i", "n", "u", "x", ";", " ", "A", "n", "d", "r", "o", "i", "d", " ",
        "9", ";", " ", "S", "M", "-", "T", "5", "1", "0", ")", " ", "C", "h",
        "r", "o", "m", "e", "/", "8", "0", ".", "0", " ", "S", "a", "f", "a",
        "r", "i", "/", "5", "3", "7", ".", "3", "6">>,
    \* an iPhone
    UaIPhone |->
      <<"M", "o", "z", "i", "l", "l", "a", "/", "5", ".", "0", " ", "(", "i",
        "P", "h", "o", "n", "e", ";", " ", "C", "P", "U", " ", "i", "P", "h",
        "o", "n", "e", " ", "O", "S", " ", "1", "4", "_", "4", " ", "l", "i",
        "k", "e", " ", "M", "a", "c", " ", "O", "S", " ", "X", ")", " ", "M",
        "o", "b", "i", "l", "e", "/", "1", "5", "E", "1", "4", "8">>,
    \* Edge on Windows 10
    UaEdge |->
      <<"M", "o", "z", "i", "l", "l", "a", "/", "5", ".", "0", " ", "(", "W",
        "i", "n", "d", "o", "w", "s", " ", "N", "T", " ", "1", "0", ".", "0",
        ")", " ", "C", "h", "r", "o", "m", "e", "/", "9", "1", ".", "0", " ",
        "S", "a", "f", "a", "r", "i", "/", "5", "3", "7", ".", "3", "6", " ",
        "E", "d", "g", "/", "9", "1", ".", "0", ".", "8">>,
    \* Safari on macOS
    UaSafariMac |->
      <<"M", "o", "z", "i", "l", "l", "a", "/", "5", ".", "0", " ", "(", "M",
        "a", "c", "i", "n", "t", "o", "s", "h", ";", " ", "I", "n", "t", "e",
        "l", " ", "M", "a", "c", " ", "O", "S", " ", "X", " ", "1", "0", "_",
        "1", "5", "_", "7", ")", " ", "V", "e", "r", "s", "i", "o", "n", "/",
        "1", "4", ".", "0", " ", "S", "a", "f", "a", "r", "i", "/", "6", "0",
        "5", ".", "1">>,
    \* Firefox on Linux
    UaFirefoxLinux |->
      <<"M", "o", "z", "i", "l", "l", "a", "/", "5", ".", "0", " ", "(", "X",
        "1", "1", ";", " ", "L", "i", "n", "u", "x", " ", "x", "8", "6", "_",
        "6", "4", ";", " ", "r", "v", ":", "8", "9", ".", "0", ")", " ", "G",
        "e", "c", "k", "o", " ", "F", "i", "r", "e", "f", "o", "x", "/", "8",
        "9", ".", "0">>,
    \* Internet Explorer 11 on Windows 7
    UaIE |->
      <<"M", "o", "z", "i", "l", "l", "a", "/", "5", ".", "0", " ", "(", "W",
        "i", "n", "d", "o", "w", "s", " ", "N", "T", " ", "6", ".", "1", ";",
        " ", "T", "r", "i", "d", "e", "n", "t", "/", "7", ".", "0", ";", " ",
        "r", "v", ":", "1", "1", ".", "0", ")", " ", "l", "i", "k", "e", " ",
        "G", "e", "c", "k", "o">>,
    \* Opera on Windows 8.1
    UaOpera |->
      <<"M", "o", "z", "i", "l", "l", "a", "/", "5", ".", "0", " ", "(", "W",
        "i", "n", "d", "o", "w", "s", " ", "N", "T", " ", "6", ".", "3", ")",
        " ", "C", "h", "r", "o", "m", "e", "/", "9", "0", ".", "0", " ", "S",
        "a", "f", "a", "r", "i", "/", "5", "3", "7", ".", "3", "6", " ", "O",
        "P", "R", "/", "7", "6", ".", "0">>,
    \* Chrome OS
    UaChromeOS |->
      <<"M", "o", "z", "i", "l", "l", "a", "/", "5", ".", "0", " ", "(", "X",
        "1", "1", ";", " ", "C", "r", "O", "S", " ", "x", "8", "6", "_", "6",
        "4", " ", "1", "3", "8", "1", "6", ")", " ", "C", "h", "r", "o", "m",
        "e", "/", "9", "0", ".", "0", " ", "S", "a", "f", "a", "r", "i", "/",
        "5", "3", "7", ".", "3", "6">>,
    \* a tablet that is not mobile
    UaKindle |->
      <<"M", "o", "z", "i", "l", "l", "a", "/", "5", ".", "0", " ", "(", "T",
        "a", "b", "l", "e", "t", ";", " ", "r", "v", ":", "6", "8", ".", "0",
        ")", " ", "G", "e", "c", "k", "o", " ", "F", "i", "r", "e", "f", "o",
        "x", "/", "6", "8", ".", "0">>,
    \* no user agent
    UaEmpty |->
      <<>>,
    \* a user agent no rule knows
    UaPlain |->
      <<"x", "y", "z">>,
    \* Facebook in-app browser
    UaFacebookApp |->
      <<"M", "o", "z", "i", "l", "l", "a", "/", "5", ".", "0", " ", "(", "i",
        "P", "h", "o", "n", "e", ")", " ", "[", "F", "B", "A", "N", "/", "F",
        "B", "I", "O", "S", ";", "F", "B", "A", "V", "/", "3", "0", "0", ".",
        "0", "]">>,
    \* Messenger in-app browser
    UaMessengerApp |->
      <<"M", "o", "z", "i", "l", "l", "a", "/", "5", ".", "0", " ", "(", "L",
        "i", "n", "u", "x", ")", " ", "M", "e", "s", "s", "e", "n", "g", "e",
        "r", "/", "3", "0", "0">>,
    \* Instagram in-app browser
    UaInstagramApp |->
      <<"M", "o", "z", "i", "l", "l", "a", "/", "5", ".", "0", " ", "(", "L",
        "i", "n", "u", "x", ";", " ", "A", "n", "d", "r", "o", "i", "d", " ",
        "1", "1", ")", " ", "I", "n", "s", "t", "a", "g", "r", "a", "m", " ",
        "1", "5", "0", ".", "0">>,
    \* Twitter in-app browser
    UaTwitterApp |->
      <<"M", "o", "z", "i", "l", "l", "a", "/", "5", ".", "0", " ", "(", "i",
        "P", "h", "o", "n", "e", ")", " ", "T", "w", "i", "t", "t", "e", "r",
        " ", "f", "o", "r", " ", "i", "P", "h", "o", "n", "e">>,
    \* LinkedIn in-app browser
    UaLinkedInApp |->
      <<"M", "o", "z", "i", "l", "l", "a", "/", "5", ".", "0", " ", "(", "L",
        "i", "n", "u", "x", ")", " ", "L", "i", "n", "k", "e", "d", "I", "n",
        "A", "p", "p">>,
    \* WhatsApp
    UaWhatsAppApp |->
      <<"W", "h", "a", "t", "s", "A", "p", "p", "/", "2", ".", "2", "1", " ",
        "A">>,
    \* Telegram
    UaTelegramApp |->
      <<"M", "o", "z", "i", "l", "l", "a", "/", "5", ".", "0", " ", "T", "e",
        "l", "e", "g", "r", "a", "m", "-", "A", "n", "d", "r", "o", "i", "d",
        "/", "8">>,
    \* Snapchat
    UaSnapchatApp |->
      <<"M", "o", "z", "i", "l", "l", "a", "/", "5", ".", "0", " ", "(", "i",
        "P", "h", "o", "n", "e", ")", " ", "S", "n", "a", "p", "c", "h", "a",
        "t", "/", "1", "1", ".", "0">>,
    \* TikTok
    UaTikTokApp |->
      <<"M", "o", "z", "i", "l", "l", "a", "/", "5", ".", "0", " ", "(", "L",
        "i", "n", "u", "x", ")", " ", "m", "u", "s", "i", "c", "a", "l", "_",
        "l", "y", "_", "2", "0", "2", "1", " ", "B", "y", "t", "e", "L", "o",
        "c", "a", "l", "e">>,
    \* Pinterest
    UaPinterestApp |->
      <<"M", "o", "z", "i", "l", "l", "a", "/", "5", ".", "0", " ", "(", "L",
        "i", "n", "u", "x", ")", " ", "[", "P", "i", "n", "t", "e", "r", "e",
        "s", "t", "/", "A", "n", "d", "r", "o", "i", "d", "]">>,
    \* Reddit
    UaRedditApp |->
      <<"M", "o", "z", "i", "l", "l", "a", "/", "5", ".", "0", " ", "(", "L",
        "i", "n", "u", "x", ")", " ", "R", "e", "d", "d", "i", "t", "/", "2",
        "0", "2", "1", ".", "2", "0">>,
    \* Discord
    UaDiscordApp |->
      <<"M", "o", "z", "i", "l", "l", "a", "/", "5", ".", "0", " ", "(", "L",
        "i", "n", "u", "x", ")", " ", "D", "i", "s", "c", "o", "r", "d", "-",
        "A", "n", "d", "r", "o", "i", "d">>,
    \* Slack
    UaSlackApp |->
      <<"M", "o", "z", "i", "l", "l", "a", "/", "5", ".", "0", " ", "(", "M",
        "a", "c", "i", "n", "t", "o", "s", "h", ")", " ", "S", "l", "a", "c",
        "k", "_", "S", "S", "B", "/", "4", ".", "0">>,
    \* WeChat
    UaWeChatApp |->
      <<"M", "o", "z", "i", "l", "l", "a", "/", "5", ".", "0", " ", "(", "L",
        "i", "n", "u", "x", ")", " ", "M", "i", "c", "r", "o", "M", "e", "s",
        "s", "e", "n", "g", "e", "r", "/", "8", ".", "0">>,
    \* Line
    UaLineApp |->
      <<"M", "o", "z", "i", "l", "l", "a", "/", "5", ".", "0", " ", "(", "i",
        "P", "h", "o", "n", "e", ")", " ", "L", "i", "n", "e", "/", "1", "1",
        ".", "1">>,
    \* Viber
    UaViberApp |->
      <<"M", "o", "z", "i", "l", "l", "a", "/", "5", ".", "0", " ", "(", "L",
        "i", "n", "u", "x", ")", " ", "V", "i", "b", "e", "r", "/", "1", "5">>,
    \* Skype
    UaSkypeApp |->
      <<"M", "o", "z", "i", "l", "l", "a", "/", "5", ".", "0", " ", "(", "L",
        "i", "n", "u", "x", ")", " ", "S", "k", "y", "p", "e", "/", "8", ".",
        "7">>,
    \* YouTube
    UaYouTubeApp |->
      <<"c", "o", "m", ".", "g", "o", "o", "g", "l", "e", ".", "i", "o", "s",
        ".", "y", "o", "u", "t", "u", "b", "e", "/", "1", "6", ".", "0">>,
    \* Google App
    UaGoogleApp |->
      <<"M", "o", "z", "i", "l", "l", "a", "/", "5", ".", "0", " ", "(", "i",
        "P", "h", "o", "n", "e", ")", " ", "G", "S", "A", "/", "1", "5", "0",
        ".", "0", " ", "M", "o", "b", "i", "l", "e">>,
    \* Outlook
    UaOutlookApp |->
      <<"M", "o", "z", "i", "l", "l", "a", "/", "5", ".", "0", " ", "(", "L",
        "i", "n", "u", "x", ")", " ", "O", "u", "t", "l", "o", "o", "k", "-",
        "A", "n", "d", "r", "o", "i", "d", "/", "2", ".", "0">>,
    \* a search engine crawler
    UaGooglebot |->
      <<"M", "o", "z", "i", "l", "l", "a", "/", "5", ".", "0", " ", "(", "c",
        "o", "m", "p", "a", "t", "i", "b", "l", "e", ";", " ", "G", "o", "o",
        "g", "l", "e", "b", "o", "t", "/", "2", ".", "1", ")">>,
    \* a social preview crawler
    UaFacebookPreview |->
      <<"f", "a", "c", "e", "b", "o", "o", "k", "e", "x", "t", "e", "r", "n",
        "a", "l", "h", "i", "t", "/", "1", ".", "1">>,
    \* a headless browser
    UaHeadless |->
      <<"M", "o", "z", "i", "l", "l", "a", "/", "5", ".", "0", " ", "(", "X",
        "1", "1", ";", " ", "L", "i", "n", "u", "x", ")", " ", "H", "e", "a",
        "d", "l", "e", "s", "s", "C", "h", "r", "o", "m", "e", "/", "9", "0",
        ".", "0">>,
    \* a scripting HTTP client, upper case
    UaCurl |->
      <<"C", "U", "R", "L", "/", "7", ".", "6", "8", ".", "0">>
  ]

UserAgents ==
  { Agents.UaScenario, Agents.UaIPad, Agents.UaAndroidTablet,
    Agents.UaIPhone, Agents.UaEdge, Agents.UaSafariMac,
    Agents.UaFirefoxLinux, Agents.UaIE, Agents.UaOpera, Agents.UaChromeOS,
    Agents.UaKindle, Agents.UaEmpty, Agents.UaPlain, Agents.UaFacebookApp,
    Agents.UaMessengerApp, Agents.UaInstagramApp, Agents.UaTwitterApp,
    Agents.UaLinkedInApp, Agents.UaWhatsAppApp, Agents.UaTelegramApp,
    Agents.UaSnapchatApp, Agents.UaTikTokApp, Agents.UaPinterestApp,
    Agents.UaRedditApp, Agents.UaDiscordApp, Agents.UaSlackApp,
    Agents.UaWeChatApp, Agents.UaLineApp, Agents.UaViberApp,
    Agents.UaSkypeApp, Agents.UaYouTubeApp, Agents.UaGoogleApp,
    Agents.UaOutlookApp, Agents.UaGooglebot, Agents.UaFacebookPreview,
    Agents.UaHeadless, Agents.UaCurl }

\* The user agents above that carry an in-app browser signature.
InAppUserAgents ==
  { Agents.UaFacebookApp, Agents.UaMessengerApp, Agents.UaInstagramApp,
    Agents.UaTwitterApp, Agents.UaLinkedInApp, Agents.UaWhatsAppApp,
    Agents.UaTelegramApp, Agents.UaSnapchatApp, Agents.UaTikTokApp,
    Agents.UaPinterestApp, Agents.UaRedditApp, Agents.UaDiscordApp,
    Agents.UaSlackApp, Agents.UaWeChatApp, Agents.UaLineApp,
    Agents.UaViberApp, Agents.UaSkypeApp, Agents.UaYouTubeApp,
    Agents.UaGoogleApp, Agents.UaOutlookApp }

\* Referrers a visitor can arrive with.
\* no referrer
Refs ==
  [
    RefEmpty |->
      <<>>,
    \* the literal placeholder
    RefDirect |->
      <<"d", "i", "r", "e", "c", "t">>,
    \* a referrer that new URL rejects
    RefNotUrl |->
      <<"n", "o", "t", " ", "a", " ", "u", "r", "l">>,
    \* a search engine
    RefGoogle |->
      <<"h", "t", "t", "p", "s", ":", "/", "/", "g", "o", "o", "g", "l", "e",
        ".", "c", "o", "m">>,
    \* the link shim of Facebook
    RefFacebookLink |->
      <<"h", "t", "t", "p", "s", ":", "/", "/", "l", ".", "f", "a", "c", "e",
        "b", "o", "o", "k", ".", "c", "o", "m", "/">>,
    \* a site that is in no table
    RefOther |->
      <<"h", "t", "t", "p", "s", ":", "/", "/", "e", "x", "a", "m", "p", "l",
        "e", ".", "o", "r", "g", "/", "p", "a", "g", "e">>,
    \* a search whose query names a network
    RefBingQuery |->
      <<"h", "t", "t", "p", "s", ":", "/", "/", "w", "w", "w", ".", "b", "i",
        "n", "g", ".", "c", "o", "m", "/", "s", "e", "a", "r", "c", "h", "?",
        "q", "=", "f", "a", "c", "e", "b", "o", "o", "k">>,
    \* upper case in scheme and host
    RefUpper |->
      <<"H", "T", "T", "P", "S", ":", "/", "/", "W", "W", "W", ".", "Y", "o",
        "u", "T", "u", "b", "e", ".", "C", "O", "M", "/", "w", "a", "t", "c",
        "h">>
  ]

Referrers ==
  { Refs.RefEmpty, Refs.RefDirect, Refs.RefNotUrl, Refs.RefGoogle,
    Refs.RefFacebookLink, Refs.RefOther, Refs.RefBingQuery, Refs.RefUpper }

\* Every word of the referrer table.
TableHosts == UNION {ReferrerRules[i].hosts : i \in DOMAIN ReferrerRules}
\* A referrer whose host name is exactly the given word.
RefOfHost(h) == Words.sHttps \o <<":", "/", "/">> \o h \o <<"/">>

\* The inputs of one page view: every user agent with every referrer, the
\* plain user agents with a referrer for every word of the referrer table,
\* and one user agent in every environment.
ClassifierInputs ==
  {[ua |-> u, ref |-> r, env |-> FullEnv] : u \in UserAgents, r \in Referrers}
    \cup {[ua |-> u, ref |-> r, env |-> FullEnv] :
            u \in {Agents.UaPlain, Agents.UaSafariMac}, r \in {RefOfHost(h) : h \in TableHosts}}
    \cup {[ua |-> Agents.UaScenario, ref |-> Refs.RefEmpty, env |-> e] : e \in Envs}

\* Nothing classified yet.
NotClassified == [done |-> FALSE]
\* generateVisitorId not called yet.
NoVisitorId == [called |-> FALSE]

\* ------------------------------------------------------------- state
VARIABLES
  page,          \* route of this page view: "slug", "file" or "image"
  slugResp,      \* SlugPage: the answer of GET /api/url/:slug, or NoResp
  slugState,     \* SlugPage: "resolving", a failure view, or "redirect"
  mounted,       \* ClientRedirect is mounted
  url, slug,     \* props of ClientRedirect
  analyticsRef,  \* useRef latch of sendAnalyticsAndRedirect
  redirectRef,   \* useRef latch of the navigation
  progress,      \* useState progress
  runs,          \* one record per run of the effect (its closure and timers)
  posts,         \* analytics events sent to POST /api/analytics/:slug
  navLog,        \* assignments to window.location.href, in order
  lastGeo,       \* the last settled geolocation lookup: failure or not, result
  \* FilePage and ImagePage (one of them per page view)
  fileHasPassword, \* backend: the file is password protected
  fileInfo,      \* useState fileInfo: NoFileInfo or the file's record
  loading,       \* useState loading
  error,         \* useState error: Null or the message
  password,      \* useState password
  needsPassword, \* useState needsPassword
  downloading,   \* useState downloading
  passwordError, \* useState passwordError (file page)
  imageUrl,      \* useState imageUrl (image page): NoUrl or the data URL
  imgLoad,       \* the <img> of the image page: "none", "loading", "loaded", "failed"
  toast,         \* the last toast shown (image page), or Null
  viewRef,       \* useRef analyticsRef of the page
  aPc,           \* sendAnalytics: "idle", "geo", "post", "sent", "failed"
  infoReqs,      \* fetchFileInfo calls in flight
  dataReq,       \* the data request of a download in flight, or NoUrl
  incReqs,       \* increment-download POSTs in flight
  viewPosts,     \* POSTs issued to /api/file/:slug/analytics
  incPosts,      \* POSTs issued to /api/file/:slug/increment-download
  saves,         \* browser saves triggered (a.click())
  clicks,        \* download clicks so far
  accessDenied,  \* the last answer of /api/file/:slug/data was a 401
  \* the classifier and the fingerprint generator of the page view
  userAgent,     \* navigator.userAgent
  referrer,      \* document.referrer
  browserEnv,    \* which of navigator, screen and the canvas are usable
  classified,    \* the classification put into the event, or NotClassified
  visitorId,     \* the result of generateVisitorId, or NoVisitorId
  \* UploadPage
  selectedFile,  \* useState selectedFile: NoFile or the file
  previewUrl,    \* useState previewUrl: NoFile or the file the object URL shows
  uploadResult,  \* useState uploadResult: NoFile or the file the backend stored
  isUploading,   \* useState isUploading
  uploadReq,     \* the file of the POST /api/upload in flight, or NoFile
  uploaded,      \* sizes of the files sent to POST /api/upload, in order
  \* DashboardPage (its loading and error are the variables above)
  urls,          \* useState urls has been set from GET /api/urls
  files,         \* useState files has been set from GET /api/files
  fetchPc,       \* fetchData: "idle", "requests", "filesBody", "done"
  dashResp       \* the answers fetchData has seen

redirectVars == <<slugResp, slugState, mounted, url, slug, analyticsRef,
                  redirectRef, progress, runs, posts, navLog>>

fileVars == <<fileHasPassword, fileInfo, loading, error, password,
              needsPassword, downloading, passwordError, imageUrl, imgLoad,
              toast, viewRef, aPc, infoReqs, dataReq, incReqs, viewPosts,
              incPosts, saves, clicks, accessDenied>>

classVars == <<userAgent, referrer, browserEnv, classified, visitorId>>

toolVars == <<selectedFile, previewUrl, uploadResult, isUploading, uploadReq,
              uploaded, urls, files, fetchPc, dashResp>>

vars == <<page, redirectVars, lastGeo, fileVars, classVars, toolVars>>

\* A file the visitor can hand to the upload page, and no file (null).
File(size, image) == [set |-> TRUE, size |-> size, image |-> image]
NoFile == [set |-> FALSE, size |-> 0, image |-> FALSE]

\* The answers of the dashboard's two requests and the parsed body of the
\* files answer, as far as fetchData has seen them.
NoDashResp == [urls |-> "none", files |-> "none", body |-> "none"]

NoResp == [kind |-> "none", status |-> 0, originalUrl |-> <<>>]

NoGeo == [who |-> "none", failed |-> FALSE, result |-> GeoNull]

GeoSeen(who, o, result) == [who |-> who, failed |-> GeoFailure(o), result |-> result]

\* The password parameter of a data URL: Null when the URL carries none.
DataUrl(pw) == [set |-> TRUE, pw |-> pw]
\* No URL (imageUrl null, no request in flight).
NoUrl == [set |-> FALSE, pw |-> Null]

\* setFileInfo(data), and the null fileInfo of a page that loaded none.
FileInfo(hasPassword) == [loaded |-> TRUE, hasPassword |-> hasPassword]
NoFileInfo == [loaded |-> FALSE, hasPassword |-> FALSE]

\* ------------------------------------------------- ClientRedirect effect
\* `if (analyticsRef.current) return;` (ClientRedirect.tsx:387-389): where
\* the async call of a new effect run stands after its synchronous part.
NoLatchStartPc(latch) == "geo"
StartPc(latch) == IF latch THEN "returned" ELSE "geo"

\* The record of one effect run: its closure (url, slug), the async call
\* sendAnalyticsAndRedirect (pc, with the countdown `left` of the abort signal
\* of the geolocation request or of the delayed redirect), the analytics POST
\* (req, with the countdown of its abort signal), the fallback timer (fb) and
\* the progress interval (iv, with the milliseconds to its next firing).
\* A timer that is not pending keeps no time: its countdown reads 0.
NewRun(u, s, latch) ==
  [url |-> u, slug |-> s,
   pc |-> StartPc(latch),
   left |-> IF StartPc(latch) = "geo" THEN Ticks(GeoTimeoutMs) ELSE 0,
   req |-> "none", reqLeft |-> 0,
   fb |-> "pending", fbLeft |-> Ticks(FallbackMs),
   iv |-> "active", ivMs |-> IntervalMs,
   cleaned |-> FALSE]

\* Effect cleanup (ClientRedirect.tsx:555-558) applied to one run.
CleanupKeepTimer(r) ==
  [r EXCEPT !.cleaned = TRUE,
            !.iv = IF r.iv = "active" THEN "cleared" ELSE r.iv,
            !.ivMs = 0]
Cleanup(r) ==
  [r EXCEPT !.cleaned = TRUE,
            !.iv = IF r.iv = "active" THEN "cleared" ELSE r.iv,
            !.ivMs = 0,
            !.fb = IF r.fb = "pending" THEN "cleared" ELSE r.fb,
            !.fbLeft = IF r.fb = "pending" THEN 0 ELSE r.fbLeft]

\* The cleanup React runs is the one of the latest effect run.
CleanupLast(rs) ==
  IF rs = <<>> THEN rs
  ELSE [rs EXCEPT ![Len(rs)] = Cleanup(rs[Len(rs)])]

\* `if (!url || !slug) return;` (ClientRedirect.tsx:384)
EffectGuard(u, s) == u # <<>> /\ s # ""

\* The effect body (ClientRedirect.tsx:383-553) run with props u, s.
RunEffect(rs, u, s, latch) ==
  IF EffectGuard(u, s) THEN Append(rs, NewRun(u, s, latch)) ELSE rs

\* analyticsRef after the effect body ran.
LatchAfter(u, s, latch) == latch \/ EffectGuard(u, s)

\* The state in which a page of pages starts: nothing has been fetched, the
\* file, image and dashboard pages show their spinner and the file and
\* image pages have their first fetchFileInfo in flight, the dashboard its
\* two requests.
PageInit(pages) ==
  /\ page \in pages
  /\ slugResp = NoResp
  /\ slugState = IF page = "slug" THEN "resolving" ELSE "none"
  /\ mounted = FALSE
  /\ url = <<>>
  /\ slug = "abc"
  /\ analyticsRef = FALSE
  /\ redirectRef = FALSE
  /\ progress = 0
  /\ runs = <<>>
  /\ posts = <<>>
  /\ navLog = <<>>
  /\ lastGeo = NoGeo
  /\ fileHasPassword \in IF page \in {"file", "image"} THEN BOOLEAN
                         ELSE {FALSE}
  /\ fileInfo = NoFileInfo
  /\ loading = (page \in {"file", "image", "dashboard"})
  /\ error = Null
  /\ password = ""
  /\ needsPassword = FALSE
  /\ downloading = FALSE
  /\ passwordError = FALSE
  /\ imageUrl = NoUrl
  /\ imgLoad = "none"
  /\ toast = Null
  /\ viewRef = FALSE
  /\ aPc = "idle"
  /\ infoReqs = IF page \in {"file", "image"} THEN 1 ELSE 0
  /\ dataReq = NoUrl
  /\ incReqs = 0
  /\ viewPosts = 0
  /\ incPosts = 0
  /\ saves = 0
  /\ clicks = 0
  /\ accessDenied = FALSE
  /\ selectedFile = NoFile
  /\ previewUrl = NoFile
  /\ uploadResult = NoFile
  /\ isUploading = FALSE
  /\ uploadReq = NoFile
  /\ uploaded = <<>>
  /\ urls = FALSE
  /\ files = FALSE
  /\ fetchPc = IF page = "dashboard" THEN "requests" ELSE "idle"
  /\ dashResp = NoDashResp

\* A view of the redirect page, the file page or the image page.
ViewInit == PageInit({"slug", "file", "image"})

\* A page view whose classifier inputs are fixed: the timing and the
\* requests of the page do not depend on them.
Init ==
  /\ ViewInit
  /\ userAgent = <<>>
  /\ referrer = <<>>
  /\ browserEnv = FullEnv
  /\ classified = NotClassified
  /\ visitorId = NoVisitorId

\* SlugPage (part_001:558-627): resolve the slug and render; ClientRedirect
\* is mounted with the normalised url and its effect runs.
SlugResolve(resp) ==
  /\ page = "slug"
  /\ slugState = "resolving"
  /\ slugResp' = resp
  /\ slugState' = SlugOutcome(resp)
  /\ IF SlugOutcome(resp) = "redirect"
     THEN /\ mounted' = TRUE
          /\ url' = TargetUrl(resp.originalUrl)
          /\ runs' = RunEffect(runs, TargetUrl(resp.originalUrl), slug, analyticsRef)
          /\ analyticsRef' = LatchAfter(TargetUrl(resp.originalUrl), slug, analyticsRef)
     ELSE UNCHANGED <<mounted, url, runs, analyticsRef>>
  /\ UNCHANGED <<fileVars, page, classVars, toolVars, slug, redirectRef, progress, posts, navLog, lastGeo>>

\* The effect runs again (the url or slug prop changed, or React ran the
\* cleanup and the effect again with the same props): cleanup of the
\* previous run, then the effect body.
EffectRerun(u, s) ==
  /\ mounted
  /\ Len(runs) < MaxRuns
  /\ url' = u
  /\ slug' = s
  /\ runs' = RunEffect(CleanupLast(runs), u, s, analyticsRef)
  /\ analyticsRef' = LatchAfter(u, s, analyticsRef)
  /\ UNCHANGED <<fileVars, page, classVars, toolVars, slugResp, slugState, mounted, redirectRef, progress,
                 posts, navLog, lastGeo>>

\* Teardown of the component: the cleanup of its last effect run.
Unmount ==
  /\ mounted
  /\ mounted' = FALSE
  /\ runs' = CleanupLast(runs)
  /\ UNCHANGED <<fileVars, page, classVars, toolVars, slugResp, slugState, url, slug, analyticsRef,
                 redirectRef, progress, posts, navLog, lastGeo>>

\* `if (!redirectRef.current && url) { redirectRef.current = true;
\*  window.location.href = url; }` with the url of the closure
\* (ClientRedirect.tsx:524-528, 548-552).
NavigateUnguarded(u) ==
  /\ redirectRef' = TRUE
  /\ navLog' = Append(navLog, u)
Navigate(u) ==
  IF ~redirectRef /\ u # <<>>
  THEN /\ redirectRef' = TRUE
       /\ navLog' = Append(navLog, u)
  ELSE UNCHANGED <<redirectRef, navLog>>

\* fetchGeoLocation settles; sendAnalyticsAndRedirect builds the event and
\* issues the POST, which it awaits (ClientRedirect.tsx:401-510).
GeoSettleNoAwait(k, o) ==
  /\ k \in 1..Len(runs)
  /\ runs[k].pc = "geo"
  /\ (o.kind = "timeout") => runs[k].left = 0
  /\ runs' = [runs EXCEPT ![k].pc = "delay",
                          ![k].left = Ticks(RedirectDelayMs),
                          ![k].req = "inflight",
                          ![k].reqLeft = Ticks(PostTimeoutMs)]
  /\ posts' = Append(posts, [slug |-> runs[k].slug, geo |-> FetchGeoLocation(o)])
  /\ lastGeo' = GeoSeen("redirect", o, FetchGeoLocation(o))
  /\ UNCHANGED <<fileVars, page, classVars, toolVars, slugResp, slugState, mounted, url, slug, analyticsRef,
                 redirectRef, progress, navLog>>
GeoSettle(k, o) ==
  /\ k \in 1..Len(runs)
  /\ runs[k].pc = "geo"
  /\ (o.kind = "timeout") => runs[k].left = 0
  /\ runs' = [runs EXCEPT ![k].pc = "post",
                          ![k].left = 0,
                          ![k].req = "inflight",
                          ![k].reqLeft = Ticks(PostTimeoutMs)]
  /\ posts' = Append(posts, [slug |-> runs[k].slug, geo |-> FetchGeoLocation(o)])
  /\ lastGeo' = GeoSeen("redirect", o, FetchGeoLocation(o))
  /\ UNCHANGED <<fileVars, page, classVars, toolVars, slugResp, slugState, mounted, url, slug, analyticsRef,
                 redirectRef, progress, navLog>>

\* The analytics POST settles (success, error status, rejection or abort after
\* 5000 ms); the async call leaves its try block and schedules the delayed
\* redirect (ClientRedirect.tsx:502-529).
PostSettle(k, o) ==
  /\ k \in 1..Len(runs)
  /\ runs[k].req = "inflight"
  /\ (o = "timeout") => runs[k].reqLeft = 0
  /\ runs' = [runs EXCEPT
       ![k].req = "settled",
       ![k].reqLeft = 0,
       ![k].pc = IF runs[k].pc = "post" THEN "delay" ELSE runs[k].pc,
       ![k].left = IF runs[k].pc = "post" THEN Ticks(RedirectDelayMs)
                   ELSE runs[k].left]
  /\ UNCHANGED <<fileVars, page, classVars, toolVars, slugResp, slugState, mounted, url, slug, analyticsRef,
                 redirectRef, progress, posts, navLog, lastGeo>>

\* The delayed redirect fires (ClientRedirect.tsx:523-529).
DelayedRedirect(k) ==
  /\ k \in 1..Len(runs)
  /\ runs[k].pc = "delay"
  /\ runs[k].left = 0
  /\ runs' = [runs EXCEPT ![k].pc = "done"]
  /\ Navigate(runs[k].url)
  /\ UNCHANGED <<fileVars, page, classVars, toolVars, slugResp, slugState, mounted, url, slug, analyticsRef,
                 progress, posts, lastGeo>>

\* The fallback timer fires (ClientRedirect.tsx:547-553).
FallbackFireAfterAnalytics(k) ==
  /\ k \in 1..Len(runs)
  /\ runs[k].fb = "pending"
  /\ runs[k].fbLeft = 0
  /\ runs' = [runs EXCEPT ![k].fb = "fired"]
  /\ IF \A j \in 1..Len(runs) : runs[j].pc \notin {"geo", "post"}
     THEN Navigate(runs[k].url)
     ELSE UNCHANGED <<redirectRef, navLog>>
  /\ UNCHANGED <<fileVars, page, classVars, toolVars, slugResp, slugState, mounted, url, slug, analyticsRef,
                 progress, posts, lastGeo>>
FallbackFire(k) ==
  /\ k \in 1..Len(runs)
  /\ runs[k].fb = "pending"
  /\ runs[k].fbLeft = 0
  /\ runs' = [runs EXCEPT ![k].fb = "fired"]
  /\ Navigate(runs[k].url)
  /\ UNCHANGED <<fileVars, page, classVars, toolVars, slugResp, slugState, mounted, url, slug, analyticsRef,
                 progress, posts, lastGeo>>

\* One tick of the progress interval (ClientRedirect.tsx:536-544); it is
\* due when its next firing falls within the current tick.
IntervalTick(k) ==
  /\ k \in 1..Len(runs)
  /\ runs[k].iv = "active"
  /\ runs[k].ivMs < TickMs
  /\ IF progress >= ProgressFull
     THEN /\ runs' = [runs EXCEPT ![k].iv = "stopped", ![k].ivMs = 0]
          /\ progress' = ProgressFull
     ELSE /\ progress' = progress + ProgressStep
          /\ runs' = [runs EXCEPT ![k].ivMs = runs[k].ivMs + IntervalMs]
  /\ UNCHANGED <<fileVars, page, classVars, toolVars, slugResp, slugState, mounted, url, slug, analyticsRef,
                 redirectRef, posts, navLog, lastGeo>>

\* ------------------------------------------------------------- time
\* The countdowns of a run that are running.
AsyncCounting(r) == r.pc \in {"geo", "delay"}
PostCounting(r) == r.req = "inflight"
FallbackCounting(r) == r.fb = "pending"
IntervalCounting(r) == r.iv = "active"

\* A timer or abort signal of the run is due and has not fired yet.
Due(r) ==
  \/ AsyncCounting(r) /\ r.left = 0
  \/ PostCounting(r) /\ r.reqLeft = 0
  \/ FallbackCounting(r) /\ r.fbLeft = 0
  \/ IntervalCounting(r) /\ r.ivMs < TickMs

Elapse(r) ==
  [r EXCEPT !.left = IF AsyncCounting(r) THEN r.left - 1 ELSE r.left,
            !.reqLeft = IF PostCounting(r) THEN r.reqLeft - 1 ELSE r.reqLeft,
            !.fbLeft = IF FallbackCounting(r) THEN r.fbLeft - 1 ELSE r.fbLeft,
            !.ivMs = IF IntervalCounting(r) THEN r.ivMs - TickMs ELSE r.ivMs]

\* One tick passes: every due timer has fired, every running countdown
\* loses a tick.
Tick ==
  /\ \E k \in 1..Len(runs) :
        \/ AsyncCounting(runs[k]) \/ PostCounting(runs[k])
        \/ FallbackCounting(runs[k]) \/ IntervalCounting(runs[k])
  /\ \A k \in 1..Len(runs) : ~Due(runs[k])
  /\ runs' = [k \in 1..Len(runs) |-> Elapse(runs[k])]
  /\ UNCHANGED <<fileVars, page, classVars, toolVars, slugResp, slugState, mounted, url, slug, analyticsRef,
                 redirectRef, progress, posts, navLog, lastGeo>>

\* ------------------------------------------------ FilePage and ImagePage
\* The backend serves the data when the file has no password or the
\* password parameter is the right one.
CorrectPassword == "good"
Passwords == {"", "good", "bad"}
Authorized(pw) == ~fileHasPassword \/ pw = CorrectPassword

\* Answers of GET /api/file/:slug (fetchFileInfo).
InfoResponses == {"thrown", "notOk", "ok"}

\* Answers of GET /api/file/:slug/data to a request with password pw.
DataResponses(pw) ==
  IF Authorized(pw) THEN {"ok", "empty", "notOk", "rejected"}
  ELSE {"401", "notOk", "rejected"}

\* What the pages render (ClientRedirect.tsx:889-911, page.tsx:357-411).
FileView ==
  IF loading THEN "spinner" ELSE IF error # Null THEN "error" ELSE "card"
ImageView ==
  IF loading THEN "spinner"
  ELSE IF error # Null THEN "error"
  ELSE IF needsPassword THEN "passwordForm"
  ELSE "image"

\* The password input is on screen (ClientRedirect.tsx:944-965,
\* page.tsx:390-398).
PasswordInputShown ==
  \/ page = "file" /\ FileView = "card" /\ needsPassword
  \/ page = "image" /\ ImageView = "passwordForm"

\* The download button (file page) or the View Image / Download button
\* (image page) is on screen.
AccessActionShown ==
  \/ page = "file" /\ FileView = "card"
  \/ page = "image" /\ ImageView \in {"passwordForm", "image"}

\* The analytics effects (ClientRedirect.tsx:705-710, page.tsx:113-118).
\* ClientRedirect.tsx:705-710 without the test of analyticsRef.current.
FileEffectFiresNoLatch(fi, latch) == fi.loaded
\* ClientRedirect.tsx:705-710
FileEffectFires(fi, latch) == fi.loaded /\ ~latch
\* page.tsx:113-118
ImageEffectFires(fi, np, latch) == fi.loaded /\ ~np /\ ~latch

\* FilePage.fetchFileInfo settles (ClientRedirect.tsx:754-775), then the
\* analytics effect runs on the new fileInfo.
FileInfoSettle(resp) ==
  /\ page = "file"
  /\ infoReqs > 0
  /\ infoReqs' = infoReqs - 1
  /\ loading' = FALSE
  /\ IF resp = "ok"
     THEN /\ fileInfo' = FileInfo(fileHasPassword)
          /\ needsPassword' = (needsPassword \/ fileHasPassword)
          /\ error' = error
          /\ viewRef' = (viewRef \/ FileEffectFires(fileInfo', viewRef))
          /\ aPc' = IF FileEffectFires(fileInfo', viewRef) THEN "geo" ELSE aPc
     ELSE /\ error' = IF resp = "notOk" THEN "File not found"
                      ELSE "Failed to load file"
          /\ UNCHANGED <<fileInfo, needsPassword, viewRef, aPc>>
  /\ UNCHANGED <<page, classVars, toolVars, redirectVars, lastGeo, fileHasPassword, password,
                 downloading, passwordError, imageUrl, imgLoad, toast,
                 dataReq, incReqs, viewPosts, incPosts, saves, clicks,
                 accessDenied>>

\* ImagePage.fetchFileInfo settles (page.tsx:162-185), then the analytics
\* effect runs on the new fileInfo and needsPassword.
ImageInfoSettle(resp) ==
  /\ page = "image"
  /\ infoReqs > 0
  /\ infoReqs' = infoReqs - 1
  /\ loading' = FALSE
  /\ IF resp = "ok"
     THEN /\ fileInfo' = FileInfo(fileHasPassword)
          /\ needsPassword' = (needsPassword \/ fileHasPassword)
          /\ imageUrl' = IF fileHasPassword THEN imageUrl ELSE DataUrl(Null)
          /\ imgLoad' = IF fileHasPassword THEN imgLoad ELSE "loading"
          /\ error' = error
          /\ viewRef' = (viewRef \/ ImageEffectFires(fileInfo', needsPassword', viewRef))
          /\ aPc' = IF ImageEffectFires(fileInfo', needsPassword', viewRef)
                    THEN "geo" ELSE aPc
     ELSE /\ error' = IF resp = "notOk" THEN "File not found"
                      ELSE "Failed to load file"
          /\ UNCHANGED <<fileInfo, needsPassword, imageUrl, imgLoad, viewRef, aPc>>
  /\ UNCHANGED <<page, classVars, toolVars, redirectVars, lastGeo, fileHasPassword, password,
                 downloading, passwordError, toast, dataReq, incReqs,
                 viewPosts, incPosts, saves, clicks, accessDenied>>

\* The visitor types a password (ClientRedirect.tsx:952-955, page.tsx:394).
SetPassword(p) ==
  /\ PasswordInputShown
  /\ p # password
  /\ password' = p
  /\ passwordError' = IF page = "file" THEN FALSE ELSE passwordError
  /\ UNCHANGED <<page, classVars, toolVars, redirectVars, lastGeo, fileHasPassword, fileInfo,
                 loading, error, needsPassword, downloading, imageUrl,
                 imgLoad, toast, viewRef, aPc, infoReqs, dataReq, incReqs,
                 viewPosts, incPosts, saves, clicks, accessDenied>>

\* FilePage.handleDownload up to its first await (ClientRedirect.tsx:777-798):
\* a click on the enabled download button.
HandleDownload ==
  /\ page = "file"
  /\ FileView = "card"
  /\ ~(downloading \/ (needsPassword /\ password = ""))
  /\ clicks < MaxDownloads
  /\ fileInfo.loaded
  /\ clicks' = clicks + 1
  /\ downloading' = TRUE
  /\ passwordError' = FALSE
  /\ error' = Null
  /\ dataReq' = DataUrl(IF password # "" THEN password ELSE Null)
  /\ accessDenied' = FALSE
  /\ UNCHANGED <<page, classVars, toolVars, redirectVars, lastGeo, fileHasPassword, fileInfo,
                 loading, password, needsPassword, imageUrl, imgLoad, toast,
                 viewRef, aPc, infoReqs, incReqs, viewPosts, incPosts, saves>>

\* ClientRedirect.tsx:800-861 with the increment-download POST issued as soon
\* as the data request answered with a success status, before the blob is
\* looked at and saved.
FileDataSettlePostFirst(resp) ==
  /\ page = "file"
  /\ dataReq.set
  /\ resp \in DataResponses(dataReq.pw)
  /\ dataReq' = NoUrl
  /\ downloading' = FALSE
  /\ accessDenied' = (resp = "401")
  /\ passwordError' = IF resp = "401" THEN TRUE ELSE passwordError
  /\ error' = CASE resp = "401" -> "Invalid password"
                [] resp = "notOk" -> "Download failed"
                [] resp = "empty" -> "Downloaded file is empty"
                [] resp = "rejected" -> "Download failed"
                [] OTHER -> error
  /\ saves' = IF resp = "ok" THEN saves + 1 ELSE saves
  /\ incReqs' = IF resp \in {"ok", "empty"} THEN incReqs + 1 ELSE incReqs
  /\ incPosts' = IF resp \in {"ok", "empty"} THEN incPosts + 1 ELSE incPosts
  /\ UNCHANGED <<page, classVars, toolVars, redirectVars, lastGeo, fileHasPassword, fileInfo,
                 loading, password, needsPassword, imageUrl, imgLoad, toast,
                 viewRef, aPc, infoReqs, viewPosts, clicks>>
\* FilePage.handleDownload after the data request settled
\* (ClientRedirect.tsx:800-861).
FileDataSettle(resp) ==
  /\ page = "file"
  /\ dataReq.set
  /\ resp \in DataResponses(dataReq.pw)
  /\ dataReq' = NoUrl
  /\ downloading' = FALSE
  /\ accessDenied' = (resp = "401")
  /\ passwordError' = IF resp = "401" THEN TRUE ELSE passwordError
  /\ error' = CASE resp = "401" -> "Invalid password"
                [] resp = "notOk" -> "Download failed"
                [] resp = "empty" -> "Downloaded file is empty"
                [] resp = "rejected" -> "Download failed"
                [] OTHER -> error
  /\ saves' = IF resp = "ok" THEN saves + 1 ELSE saves
  /\ incReqs' = IF resp = "ok" THEN incReqs + 1 ELSE incReqs
  /\ incPosts' = IF resp = "ok" THEN incPosts + 1 ELSE incPosts
  /\ UNCHANGED <<page, classVars, toolVars, redirectVars, lastGeo, fileHasPassword, fileInfo,
                 loading, password, needsPassword, imageUrl, imgLoad, toast,
                 viewRef, aPc, infoReqs, viewPosts, clicks>>

\* The increment-download POST settles: the file page reloads the file info
\* when it resolved (ClientRedirect.tsx:844-855), the image page only logs
\* a rejection (page.tsx:334-340).
IncrementSettle(resolved) ==
  /\ page \in {"file", "image"}
  /\ incReqs > 0
  /\ incReqs' = incReqs - 1
  /\ infoReqs' = IF page = "file" /\ resolved THEN infoReqs + 1 ELSE infoReqs
  /\ UNCHANGED <<page, classVars, toolVars, redirectVars, lastGeo, fileHasPassword, fileInfo,
                 loading, error, password, needsPassword, downloading,
                 passwordError, imageUrl, imgLoad, toast, viewRef, aPc,
                 dataReq, viewPosts, incPosts, saves, clicks, accessDenied>>

\* ImagePage.handlePasswordSubmit (page.tsx:187-192), then the analytics
\* effect runs on the new needsPassword and the <img> starts loading.
HandlePasswordSubmit ==
  /\ page = "image"
  /\ ImageView = "passwordForm"
  /\ imageUrl' = DataUrl(password)
  /\ needsPassword' = FALSE
  /\ imgLoad' = "loading"
  /\ accessDenied' = FALSE
  /\ viewRef' = (viewRef \/ ImageEffectFires(fileInfo, FALSE, viewRef))
  /\ aPc' = IF ImageEffectFires(fileInfo, FALSE, viewRef) THEN "geo" ELSE aPc
  /\ UNCHANGED <<page, classVars, toolVars, redirectVars, lastGeo, fileHasPassword, fileInfo,
                 loading, error, password, downloading, passwordError, toast,
                 infoReqs, dataReq, incReqs, viewPosts, incPosts, saves,
                 clicks>>

\* The <img> of the image page finishes loading, or fails and onError sets
\* the error (page.tsx:415-422).
ImgSettle(resp) ==
  /\ page = "image"
  /\ ImageView = "image"
  /\ imgLoad = "loading"
  /\ resp \in DataResponses(imageUrl.pw) \ {"empty"}
  /\ imgLoad' = IF resp = "ok" THEN "loaded" ELSE "failed"
  /\ error' = IF resp = "ok" THEN error ELSE "Failed to load image"
  /\ accessDenied' = (resp = "401")
  /\ UNCHANGED <<page, classVars, toolVars, redirectVars, lastGeo, fileHasPassword, fileInfo,
                 loading, password, needsPassword, downloading,
                 passwordError, imageUrl, toast, viewRef, aPc, infoReqs,
                 dataReq, incReqs, viewPosts, incPosts, saves, clicks>>

\* ImagePage.downloadImage up to its first await (page.tsx:234-275): a click
\* on the enabled download button.
DownloadImage ==
  /\ page = "image"
  /\ ImageView = "image"
  /\ ~downloading
  /\ clicks < MaxDownloads
  /\ clicks' = clicks + 1
  /\ IF ~fileInfo.loaded
     THEN /\ toast' = "File information not available"
          /\ UNCHANGED <<downloading, dataReq, accessDenied>>
     ELSE IF fileInfo.hasPassword /\ password = "" /\ needsPassword
     THEN /\ toast' = "Please enter the password first"
          /\ UNCHANGED <<downloading, dataReq, accessDenied>>
     ELSE /\ downloading' = TRUE
          /\ dataReq' = IF imageUrl.set THEN imageUrl
                        ELSE DataUrl(IF fileInfo.hasPassword /\ password # ""
                                     THEN password ELSE Null)
          /\ accessDenied' = FALSE
          /\ toast' = toast
  /\ UNCHANGED <<page, classVars, toolVars, redirectVars, lastGeo, fileHasPassword, fileInfo,
                 loading, error, password, needsPassword, passwordError,
                 imageUrl, imgLoad, viewRef, aPc, infoReqs, incReqs,
                 viewPosts, incPosts, saves>>

\* ImagePage.downloadImage after the data request settled (page.tsx:276-354).
ImageDataSettle(resp) ==
  /\ page = "image"
  /\ dataReq.set
  /\ resp \in DataResponses(dataReq.pw)
  /\ dataReq' = NoUrl
  /\ downloading' = FALSE
  /\ accessDenied' = (resp = "401")
  /\ toast' = CASE resp = "401" -> "Invalid password"
                [] resp = "notOk" -> "Failed to download image"
                [] resp = "empty" -> "Downloaded file is empty"
                [] resp = "rejected" -> "Network error"
                [] OTHER -> "Download started!"
  /\ saves' = IF resp = "ok" THEN saves + 1 ELSE saves
  /\ incReqs' = IF resp = "ok" THEN incReqs + 1 ELSE incReqs
  /\ incPosts' = IF resp = "ok" THEN incPosts + 1 ELSE incPosts
  /\ UNCHANGED <<page, classVars, toolVars, redirectVars, lastGeo, fileHasPassword, fileInfo,
                 loading, error, password, needsPassword, passwordError,
                 imageUrl, imgLoad, viewRef, aPc, infoReqs, viewPosts, clicks>>

\* sendAnalytics: the geolocation lookup settles, the event is built and
\* POSTed (ClientRedirect.tsx:712-742, page.tsx:120-150).
GeoOf(o) ==
  IF page = "file" THEN FetchGeoLocationFile(o) ELSE FetchGeoLocationImage(o)

ViewGeoSettle(o) ==
  /\ page \in {"file", "image"}
  /\ aPc = "geo"
  /\ aPc' = "post"
  /\ viewPosts' = viewPosts + 1
  /\ lastGeo' = GeoSeen(page, o, GeoOf(o))
  /\ UNCHANGED <<page, classVars, toolVars, redirectVars, fileHasPassword, fileInfo, loading,
                 error, password, needsPassword, downloading, passwordError,
                 imageUrl, imgLoad, toast, viewRef, infoReqs, dataReq,
                 incReqs, incPosts, saves, clicks, accessDenied>>

\* sendAnalytics: the POST settles; a rejection or a timeout is caught and
\* logged (ClientRedirect.tsx:737-747, page.tsx:145-155).
ViewPostSettleSurfaced(o) ==
  /\ page \in {"file", "image"}
  /\ aPc = "post"
  /\ aPc' = IF o \in {"ok", "httpError"} THEN "sent" ELSE "failed"
  /\ error' = IF o \in {"ok", "httpError"} THEN error ELSE "Analytics failed"
  /\ UNCHANGED <<page, classVars, toolVars, redirectVars, lastGeo, fileHasPassword, fileInfo,
                 loading, password, needsPassword, downloading,
                 passwordError, imageUrl, imgLoad, toast, viewRef, infoReqs,
                 dataReq, incReqs, viewPosts, incPosts, saves, clicks,
                 accessDenied>>
ViewPostSettle(o) ==
  /\ page \in {"file", "image"}
  /\ aPc = "post"
  /\ aPc' = IF o \in {"ok", "httpError"} THEN "sent" ELSE "failed"
  /\ UNCHANGED <<page, classVars, toolVars, redirectVars, lastGeo, fileHasPassword, fileInfo,
                 loading, error, password, needsPassword, downloading,
                 passwordError, imageUrl, imgLoad, toast, viewRef, infoReqs,
                 dataReq, incReqs, viewPosts, incPosts, saves, clicks,
                 accessDenied>>

\* ------------------------------------------- classification of a page view
\* sendAnalyticsAndRedirect up to the geolocation lookup
\* (ClientRedirect.tsx:392-395): the redirect page classifies the visitor.
ClassifyRedirect ==
  /\ page = "slug"
  /\ ~classified.done
  /\ classified' = [done |-> TRUE,
                    device |-> getDeviceInfo(userAgent),
                    platform |-> detectPlatform(userAgent, referrer)]
  /\ UNCHANGED <<page, redirectVars, lastGeo, fileVars, toolVars, userAgent, referrer,
                 browserEnv, visitorId>>

\* The rest of the event of the redirect page (ClientRedirect.tsx:482-488):
\* the bot flag and the visitor id.
AssembleRedirect(time, random) ==
  /\ page = "slug"
  /\ classified.done
  /\ ~visitorId.called
  /\ visitorId' = [called |-> TRUE,
                   isBot |-> detectBot(userAgent),
                   id |-> generateVisitorId(browserEnv, userAgent, time,
                                            random)]
  /\ UNCHANGED <<page, redirectVars, lastGeo, fileVars, toolVars, userAgent, referrer,
                 browserEnv, classified>>

\* sendAnalytics of the file page (ClientRedirect.tsx:714-718)
ClassifyFile ==
  /\ page = "file"
  /\ ~classified.done
  /\ classified' = [done |-> TRUE,
                    device |-> getDeviceInfoFile(userAgent),
                    platform |-> detectPlatformFile(userAgent, referrer)]
  /\ UNCHANGED <<page, redirectVars, lastGeo, fileVars, toolVars, userAgent, referrer,
                 browserEnv, visitorId>>

\* sendAnalytics of the image page (page.tsx:122-126)
ClassifyImage ==
  /\ page = "image"
  /\ ~classified.done
  /\ classified' = [done |-> TRUE,
                    device |-> getDeviceInfoImage(userAgent),
                    platform |-> detectPlatformImage(userAgent, referrer)]
  /\ UNCHANGED <<page, redirectVars, lastGeo, fileVars, toolVars, userAgent, referrer,
                 browserEnv, visitorId>>

Next ==
  \/ \E resp \in SlugResponses : SlugResolve(resp)
  \/ \E l \in Links : EffectRerun(l.url, l.slug)
  \/ Unmount
  \/ \E k \in 1..MaxRuns, o \in GeoOutcomes : GeoSettle(k, o)
  \/ \E k \in 1..MaxRuns, o \in PostOutcomes : PostSettle(k, o)
  \/ \E k \in 1..MaxRuns : DelayedRedirect(k)
  \/ \E k \in 1..MaxRuns : FallbackFire(k)
  \/ \E k \in 1..MaxRuns : IntervalTick(k)
  \/ Tick
  \/ \E r \in InfoResponses : FileInfoSettle(r)
  \/ \E r \in InfoResponses : ImageInfoSettle(r)
  \/ \E p \in Passwords : SetPassword(p)
  \/ HandleDownload
  \/ \E r \in {"ok", "empty", "notOk", "rejected", "401"} : FileDataSettle(r)
  \/ \E b \in BOOLEAN : IncrementSettle(b)
  \/ HandlePasswordSubmit
  \/ \E r \in {"ok", "notOk", "rejected", "401"} : ImgSettle(r)
  \/ DownloadImage
  \/ \E r \in {"ok", "empty", "notOk", "rejected", "401"} : ImageDataSettle(r)
  \/ \E o \in GeoOutcomes : ViewGeoSettle(o)
  \/ \E o \in PostOutcomes : ViewPostSettle(o)

Spec == Init /\ [][Next]_vars

\* The classifier and the fingerprint generator on their own: a page view
\* with any of the inputs, in which only the classification happens.
ClassifyInit ==
  /\ ViewInit
  /\ ~fileHasPassword
  /\ \E in \in ClassifierInputs :
       /\ userAgent = in.ua
       /\ referrer = in.ref
       /\ browserEnv = in.env
  /\ classified = NotClassified
  /\ visitorId = NoVisitorId

ClassifyNext ==
  \/ ClassifyRedirect
  \/ \E t \in TimeSuffixes, r \in RandomSuffixes : AssembleRedirect(t, r)
  \/ ClassifyFile
  \/ ClassifyImage

ClassifySpec == ClassifyInit /\ [][ClassifyNext]_vars

\* ------------------------------------------------------------ UploadPage
\* 15 * 1024 * 1024 (part_000:655)
MaxFileSize == 15 * 1024 * 1024

\* Files a visitor can drop, pick or paste: around the size limit, images
\* and other files.
SelectableFiles ==
  {File(size, image) :
     size \in {MaxFileSize - 1, MaxFileSize, MaxFileSize + 1},
     image \in BOOLEAN}

\* The drop zone with the file input is rendered (part_000:810-817).
DropZoneShown == page = "upload" /\ ~uploadResult.set

\* UploadPage.handleFileSelect (part_000:653-670), called for a dropped
\* file, a file picked in the input, or an image pasted from the clipboard;
\* handlePaste shows its toast after the call (part_000:682-692).
HandleFileSelect(file, pasted) ==
  /\ page = "upload"
  /\ pasted => file.image
  /\ ~pasted => DropZoneShown
  /\ IF file.size > MaxFileSize
     THEN /\ toast' = IF pasted THEN "Image pasted from clipboard"
                      ELSE "File size must be less than 15MB"
          /\ UNCHANGED <<selectedFile, uploadResult, previewUrl>>
     ELSE /\ selectedFile' = file
          /\ uploadResult' = NoFile
          /\ previewUrl' = IF file.image THEN file ELSE NoFile
          /\ toast' = IF pasted THEN "Image pasted from clipboard" ELSE toast
  /\ UNCHANGED <<page, redirectVars, lastGeo, classVars, fileHasPassword,
                 fileInfo, loading, error, password, needsPassword,
                 downloading, passwordError, imageUrl, imgLoad, viewRef, aPc,
                 infoReqs, dataReq, incReqs, viewPosts, incPosts, saves,
                 clicks, accessDenied, isUploading, uploadReq, uploaded,
                 urls, files, fetchPc, dashResp>>

\* UploadPage.resetForm (part_000:756-766): "Remove file" next to the
\* selected file, or the button under the upload result.
ResetForm ==
  /\ page = "upload"
  /\ selectedFile.set \/ uploadResult.set
  /\ selectedFile' = NoFile
  /\ previewUrl' = NoFile
  /\ uploadResult' = NoFile
  /\ password' = ""
  /\ UNCHANGED <<page, redirectVars, lastGeo, classVars, fileHasPassword,
                 fileInfo, loading, error, needsPassword, downloading,
                 passwordError, imageUrl, imgLoad, toast, viewRef, aPc,
                 infoReqs, dataReq, incReqs, viewPosts, incPosts, saves,
                 clicks, accessDenied, isUploading, uploadReq, uploaded,
                 urls, files, fetchPc, dashResp>>

\* UploadPage.handleUpload up to its await of the POST (part_000:703-722):
\* a click on the enabled upload button, which is rendered with a selected
\* file (part_000:886-942).
HandleUpload ==
  /\ DropZoneShown
  /\ selectedFile.set
  /\ ~isUploading
  /\ Len(uploaded) < MaxUploads
  /\ isUploading' = TRUE
  /\ uploadReq' = selectedFile
  /\ uploaded' = Append(uploaded, selectedFile.size)
  /\ UNCHANGED <<page, redirectVars, lastGeo, classVars, fileVars,
                 selectedFile, previewUrl, uploadResult, urls, files,
                 fetchPc, dashResp>>

\* UploadPage.handleUpload after the POST settled (part_000:724-737).
UploadSettle(resp) ==
  /\ page = "upload"
  /\ uploadReq.set
  /\ uploadReq' = NoFile
  /\ isUploading' = FALSE
  /\ uploadResult' = IF resp = "ok" THEN uploadReq ELSE uploadResult
  /\ toast' = IF resp = "ok" THEN "File uploaded successfully!"
              ELSE "Upload failed"
  /\ UNCHANGED <<page, redirectVars, lastGeo, classVars, fileHasPassword,
                 fileInfo, loading, error, password, needsPassword,
                 downloading, passwordError, imageUrl, imgLoad, viewRef, aPc,
                 infoReqs, dataReq, incReqs, viewPosts, incPosts, saves,
                 clicks, accessDenied, selectedFile, previewUrl, uploaded,
                 urls, files, fetchPc, dashResp>>

\* --------------------------------------------------------- DashboardPage
\* What the dashboard renders (part_000:202-229).
DashboardView ==
  IF loading THEN "spinner" ELSE IF error # Null THEN "error" ELSE "list"

\* DashboardPage.fetchData after Promise.all settled (part_000:52-63): a
\* rejected request rejects the Promise.all, a non-OK answer to GET
\* /api/urls throws, otherwise urls is set and an OK answer to GET
\* /api/files is parsed.
FetchDataSettle(u, f) ==
  /\ page = "dashboard"
  /\ fetchPc = "requests"
  /\ dashResp' = [dashResp EXCEPT !.urls = u, !.files = f]
  /\ IF u = "rejected" \/ f = "rejected"
     THEN /\ error' = "Failed to fetch"
          /\ toast' = "Failed to load data"
          /\ loading' = FALSE
          /\ fetchPc' = "done"
          /\ urls' = urls
     ELSE IF u = "notOk"
     THEN /\ error' = "Failed to fetch URLs"
          /\ toast' = "Failed to load data"
          /\ loading' = FALSE
          /\ fetchPc' = "done"
          /\ urls' = urls
     ELSE /\ urls' = TRUE
          /\ error' = error
          /\ toast' = toast
          /\ loading' = (f = "ok")
          /\ fetchPc' = IF f = "ok" THEN "filesBody" ELSE "done"
  /\ UNCHANGED <<page, redirectVars, lastGeo, classVars, fileHasPassword,
                 fileInfo, password, needsPassword, downloading,
                 passwordError, imageUrl, imgLoad, viewRef, aPc, infoReqs,
                 dataReq, incReqs, viewPosts, incPosts, saves, clicks,
                 accessDenied, selectedFile, previewUrl, uploadResult,
                 isUploading, uploadReq, uploaded, files>>

\* DashboardPage.fetchData after filesResponse.json() settled
\* (part_000:66-81): body is "object" for { files: [...] }, "array" for an
\* array, "noArray" for JSON that holds no array, "notJson" when json()
\* rejects.
FilesBodySettle(body) ==
  /\ page = "dashboard"
  /\ fetchPc = "filesBody"
  /\ dashResp' = [dashResp EXCEPT !.body = body]
  /\ fetchPc' = "done"
  /\ loading' = FALSE
  /\ files' = IF body \in {"object", "array"} THEN TRUE ELSE files
  /\ error' = IF body = "notJson" THEN "Unexpected token" ELSE error
  /\ toast' = IF body = "notJson" THEN "Failed to load data" ELSE toast
  /\ UNCHANGED <<page, redirectVars, lastGeo, classVars, fileHasPassword,
                 fileInfo, password, needsPassword, downloading,
                 passwordError, imageUrl, imgLoad, viewRef, aPc, infoReqs,
                 dataReq, incReqs, viewPosts, incPosts, saves, clicks,
                 accessDenied, selectedFile, previewUrl, uploadResult,
                 isUploading, uploadReq, uploaded, urls>>

\* The upload page and the dashboard on their own.
ToolsInit ==
  /\ PageInit({"upload", "dashboard"})
  /\ userAgent = <<>>
  /\ referrer = <<>>
  /\ browserEnv = FullEnv
  /\ classified = NotClassified
  /\ visitorId = NoVisitorId

ToolsNext ==
  \/ \E file \in SelectableFiles, pasted \in BOOLEAN :
       HandleFileSelect(file, pasted)
  \/ ResetForm
  \/ HandleUpload
  \/ \E resp \in {"ok", "notOk", "rejected"} : UploadSettle(resp)
  \/ \E u \in {"ok", "notOk", "rejected"}, f \in {"ok", "notOk", "rejected"} :
       FetchDataSettle(u, f)
  \/ \E body \in {"object", "array", "noArray", "notJson"} :
       FilesBodySettle(body)

ToolsSpec == ToolsInit /\ [][ToolsNext]_vars

\* ------------------------------------------------------------- claims
InFlight(r) == r.pc = "geo" \/ r.req = "inflight"
DelayScheduled(r) == r.pc \in {"delay", "done"}
SameUrlAllRuns == \A i, j \in 1..Len(runs) : runs[i].url = runs[j].url

\* C1: once a fallback timer of the mounted component has fired, the page
\* has navigated, whatever the state of the geolocation lookup and of the
\* analytics POST; with an unchanged url prop the destination is that url.
C1_FallbackNavigates ==
  \A k \in 1..Len(runs) :
    runs[k].fb = "fired" =>
      /\ Len(navLog) >= 1
      /\ SameUrlAllRuns => navLog[1] = runs[k].url

\* C1 witness: the fallback timer navigated while the analytics work of the
\* page view was still in flight.
C1_Witness ==
  \E k \in 1..Len(runs) :
    /\ runs[k].fb = "fired"
    /\ navLog = <<runs[k].url>>
    /\ InFlight(runs[1])

\* C2 (as claimed): when the page navigates, the analytics POST has been
\* attempted exactly once.
C2_PostOnceBeforeNavigation ==
  navLog # <<>> => Len(posts) = 1

\* C3: the analytics event is POSTed at most once per page view, and every
\* call of sendAnalyticsAndRedirect made with the latch set returns without
\* starting a lookup or a POST.
C3_PostAtMostOnce ==
  /\ Len(posts) <= 1
  /\ \A k \in 2..Len(runs) : runs[k].pc = "returned" /\ runs[k].req = "none"

\* C3 witness: the effect ran again with another slug, its fallback timer
\* fired, and one event was sent.
C3_Witness ==
  /\ Len(runs) = 2
  /\ runs[2].slug # runs[1].slug
  /\ runs[2].fb = "fired"
  /\ Len(posts) = 1

\* C4 (as claimed): while the geolocation lookup or the analytics POST of a
\* run is in flight, its delayed navigation is already scheduled.
C4_DelayedPendingDuringAnalytics ==
  \A k \in 1..Len(runs) : InFlight(runs[k]) => DelayScheduled(runs[k])

\* C4 (amended): while the geolocation lookup or the analytics POST of a run
\* is in flight, its delayed navigation is not scheduled yet; the timer that
\* is pending from the mount on is the fallback timer (until it fires or the
\* cleanup clears it), and a navigation performed meanwhile is its work.
C4_DelayedAfterAnalytics ==
  \A k \in 1..Len(runs) :
    InFlight(runs[k]) =>
      /\ ~DelayScheduled(runs[k])
      /\ ~runs[k].cleaned => runs[k].fb \in {"pending", "fired"}
      /\ navLog # <<>> => \E j \in 1..Len(runs) : runs[j].fb = "fired"

\* C4 witness: the fallback timer navigated while the POST was in flight.
C4_Witness ==
  \E k \in 1..Len(runs) :
    /\ runs[k].req = "inflight"
    /\ runs[k].fb = "fired"
    /\ navLog # <<>>

\* C5: window.location.href is assigned at most once per page view.
C5_NavigateAtMostOnce == Len(navLog) <= 1

\* C5 witness: the delayed redirect and a fallback timer have both fired.
C5_Witness ==
  /\ Len(navLog) = 1
  /\ \E k, j \in 1..Len(runs) : runs[k].pc = "done" /\ runs[j].fb = "fired"

\* The resolution of the slug failed: a thrown fetch, a non-OK status, or a
\* body without originalUrl.
ResolveFailed(resp) ==
  \/ resp.kind = "thrown"
  \/ resp.kind = "response" /\ ~ResponseOk(resp.status)
  \/ resp.kind = "response" /\ resp.originalUrl = <<>>

\* C8: a failed resolution ends in a failure view with ClientRedirect never
\* mounted: no effect run, no analytics event, no navigation.
C8_FailureNeverMounts ==
  ResolveFailed(slugResp) =>
    /\ slugState \in SlugFailureStates
    /\ ~mounted
    /\ runs = <<>>
    /\ posts = <<>>
    /\ navLog = <<>>

\* C8 witness: a 200 answer without originalUrl ended in the error view.
C8_Witness ==
  /\ slugResp.kind = "response"
  /\ slugResp.status = 200
  /\ slugResp.originalUrl = <<>>
  /\ slugState = "error"

\* C9: after the cleanup of an effect run, its progress interval never
\* ticks and its fallback timer never fires.
C9_NoTimerAfterCleanup ==
  [][\A k \in 1..Len(runs) :
       runs[k].cleaned => ~IntervalTick(k) /\ ~FallbackFire(k)]_vars

\* C9 witness: a cleanup cleared a pending fallback timer and a running
\* interval.
C9_Witness ==
  \E k \in 1..Len(runs) :
    /\ runs[k].cleaned
    /\ runs[k].fb = "cleared"
    /\ runs[k].iv = "cleared"

\* C6 (as claimed): after a 401 from /api/file/:slug/data the password
\* input and the download or view action are on screen, so that the
\* visitor can enter another password and retry.
C6_RetryAfterWrongPassword ==
  accessDenied => PasswordInputShown /\ AccessActionShown

\* The fallback result of the page's fetchGeoLocation.
GeoFallback(who) == IF who = "redirect" THEN GeoNull ELSE GeoUnknown

\* C7 (as claimed): a geolocation lookup that failed (rejected, timed out,
\* non-success HTTP status, body that is not JSON, status other than
\* 'success') yields the fallback result of its page.
C7_GeoFailureFallsBack ==
  lastGeo.failed => lastGeo.result = GeoFallback(lastGeo.who)

\* C10: no step of sendAnalytics on the file page or the image page, with
\* whatever outcome of the lookup and of the POST, changes error, loading,
\* fileInfo or needsPassword or shows a toast.
C10_TelemetryKeepsView ==
  [][(aPc \in {"geo", "post"} /\ aPc' # aPc) =>
       UNCHANGED <<error, loading, fileInfo, needsPassword, toast>>]_vars

\* C10 witness: the lookup failed and the POST was rejected or timed out,
\* and the page shows the file with no error and no toast.
C10_Witness ==
  /\ page \in {"file", "image"}
  /\ aPc = "failed"
  /\ lastGeo.failed
  /\ fileInfo.loaded
  /\ error = Null
  /\ toast = Null

\* ------------------------------------------ claims about the classifier
\* The first in-app rule the user agent matches, 0 without one.
InAppRuleOf(ua) == FirstRule(InAppRules, "sigs", toLowerCase(ua))

\* The label of the platform that the page put into its event.
PlatformLabel ==
  IF page = "slug" THEN classified.platform.platform ELSE classified.platform

\* C11: a user agent with an in-app browser signature is labelled with the
\* platform of that signature whatever the referrer is, and on the redirect
\* page isInAppBrowser is true; on the redirect page and on the file and
\* image pages.
C11_InAppPriority ==
  (classified.done /\ InAppRuleOf(userAgent) # 0) =>
    /\ PlatformLabel = InAppRules[InAppRuleOf(userAgent)].platform
    /\ page = "slug" => classified.platform.isInAppBrowser

\* C12: a user agent that matches the tablet pattern and the mobile pattern
\* of its page is classified "tablet", one that matches neither "desktop".
C12_TabletWins ==
  classified.done =>
    LET tablet == CASE page = "slug" -> isTablet(userAgent)
                    [] page = "file" -> isTabletFile(userAgent)
                    [] page = "image" -> isTabletImage(userAgent)
        mobile == CASE page = "slug" -> isMobile(userAgent)
                    [] page = "file" -> isMobileFile(userAgent)
                    [] page = "image" -> isMobileImage(userAgent)
    IN /\ (tablet /\ mobile) => classified.device.deviceType = "tablet"
       /\ (~tablet /\ ~mobile) => classified.device.deviceType = "desktop"

\* An iPad, which matches both patterns, has been classified as a tablet.
C12_Witness ==
  /\ classified.done
  /\ userAgent = Agents.UaIPad
  /\ classified.device.deviceType = "tablet"

\* C13: the redirect page classifies the Android phone of the scenario,
\* arriving without referrer, as mobile, Android 10, Chrome 90.0, Direct,
\* not a bot: the Android rule decides although the Linux rule matches too.
C13_AndroidScenario ==
  (page = "slug" /\ userAgent = Agents.UaScenario /\ referrer = Refs.RefEmpty
     /\ visitorId.called) =>
    /\ classified.device.deviceType = "mobile"
    /\ classified.device.os = "Android"
    /\ classified.device.osVersion = <<"1", "0">>
    /\ classified.device.browser = "Chrome"
    /\ classified.device.browserVersion = <<"9", "0", ".", "0">>
    /\ classified.platform.platform = "Direct"
    /\ ~visitorId.isBot

\* The event of the scenario has been assembled in a full environment.
C13_Witness ==
  /\ page = "slug"
  /\ userAgent = Agents.UaScenario
  /\ referrer = Refs.RefEmpty
  /\ browserEnv = FullEnv
  /\ visitorId.called
  /\ classified.device.os = "Android"

\* The words one of which every OS rule of the redirect page needs.
OsWords == {Words.sWindows, Words.sMacOS, Words.sAndroid, Words.sIPhone, Words.sIPad, Words.sLinux, Words.sCrOS}
\* The words one of which every browser rule of the redirect page needs.
BrowserWords == {Words.sEdg, Words.sOPR, Words.sOpera, Words.sChrome, Words.sSafari, Words.sFirefox, Words.sMSIE_, Words.sTrident}

\* The referrer is empty, the literal "direct", or no URL.
NoUsableReferrer(ref) == ref = <<>> \/ ref = Words.refDirect \/ ~ParseUrl(ref).ok

\* C14: the classifier of the redirect page returns for every user agent and
\* every referrer and never throws; a user agent with no word of an OS rule
\* has os "Unknown" and no OS version, likewise for the browser; without an
\* in-app signature an empty, "direct" or unparseable referrer gives
\* "Direct".
C14_ClassifierTotal ==
  (page = "slug" /\ classified.done) =>
    /\ ~classified.platform.threw
    /\ (\A w \in OsWords : ~Includes(userAgent, w)) =>
         /\ classified.device.os = "Unknown"
         /\ classified.device.osVersion = <<>>
    /\ (\A w \in BrowserWords : ~Includes(userAgent, w)) =>
         /\ classified.device.browser = "Unknown"
         /\ classified.device.browserVersion = <<>>
    /\ (InAppRuleOf(userAgent) = 0 /\ NoUsableReferrer(referrer)) =>
         classified.platform.platform = "Direct"

\* A user agent no rule knows, with a referrer that is no URL, has been
\* classified.
C14_Witness ==
  /\ page = "slug"
  /\ classified.done
  /\ userAgent = Agents.UaPlain
  /\ referrer = Refs.RefNotUrl
  /\ classified.device.os = "Unknown"
  /\ classified.platform.platform = "Direct"

\* C15: a user agent that holds a bot signature in any letter case is
\* flagged as a bot.
C15_BotSignatureFlags ==
  visitorId.called =>
    ((\E p \in botPatterns : Includes(toLowerCase(userAgent), p)) =>
       visitorId.isBot)

\* A scripting client that writes its name in upper case has been flagged.
C15_Witness ==
  /\ visitorId.called
  /\ userAgent = Agents.UaCurl
  /\ visitorId.isBot

\* The canvas signal generateVisitorId is to hash in the given environment.
CanvasSignal(env) ==
  CASE env.canvas = "error" -> Words.sCanvasError
    [] env.canvas = "noContext" -> Words.sNoCanvas
    [] OTHER -> Device.canvasTail

\* C16: generateVisitorId returns a string and never throws; with navigator
\* and screen present the id is the hash of the components, the canvas
\* signal being a placeholder when the canvas is unusable, followed by the
\* time suffix; without navigator or screen it starts with "unknown-".
C16_VisitorIdNeverThrows ==
  visitorId.called =>
    /\ ~visitorId.id.threw
    /\ (browserEnv.navigator /\ browserEnv.screen) =>
         \E t \in TimeSuffixes :
           visitorId.id.value =
             AbsBase36(HashOf(Components(userAgent, CanvasSignal(browserEnv))))
               \o t
    /\ ~(browserEnv.navigator /\ browserEnv.screen) =>
         StartsWith(visitorId.id.value, Words.sUnknown_)

\* An id has been computed with a canvas that throws.
C16_Witness ==
  /\ visitorId.called
  /\ browserEnv.navigator
  /\ browserEnv.screen
  /\ browserEnv.canvas = "error"
  /\ ~StartsWith(visitorId.id.value, Words.sUnknown_)

\* C17: on the redirect page, without an in-app signature, a referrer whose
\* host name is a word of the referrer table is labelled with the platform
\* of the row of that word.
C17_ReferrerRowNotShadowed ==
  (page = "slug" /\ classified.done /\ InAppRuleOf(userAgent) = 0) =>
    \A i \in DOMAIN ReferrerRules : \A h \in ReferrerRules[i].hosts :
      referrer = RefOfHost(h) =>
        classified.platform.platform = ReferrerRules[i].platform

\* ------------------------------------- claims about the download pages
\* The messages the file page sets when a download failed
\* (ClientRedirect.tsx:802, 810-812, 823, 858).
DownloadFailures ==
  {"Invalid password", "Download failed", "Downloaded file is empty"}

\* The data request of a download settles in this step.
DataRequestSettles == dataReq.set /\ ~dataReq'.set

\* C18: an increment-download POST is issued only in the step in which the
\* data request of a download settled with a success status and a non-empty
\* body and the browser save was triggered; a step in which the data request
\* settled with a 401, another failure status, an empty body or a rejection
\* issues none.  On the file page and on the image page.
C18_IncrementOnlyAfterSave ==
  [][/\ incPosts' # incPosts =>
          /\ page \in {"file", "image"}
          /\ DataRequestSettles
          /\ Authorized(dataReq.pw)
          /\ incPosts' = incPosts + 1
          /\ saves' = saves + 1
          /\ ~accessDenied'
          /\ page = "file" => error' = error
          /\ page = "image" => toast' = "Download started!"
     /\ (/\ DataRequestSettles
         /\ \/ accessDenied'
            \/ page = "file" /\ error' \in DownloadFailures
            \/ page = "image" /\ toast' # "Download started!")
          => incPosts' = incPosts /\ saves' = saves
    ]_vars

\* On the file page one download was saved and counted, and a second one
\* came back empty and was not.
C18_Witness ==
  /\ page = "file"
  /\ clicks = 2
  /\ saves = 1
  /\ incPosts = 1
  /\ error = "Downloaded file is empty"


\* C19: on the file page, when every download so far was saved, the error
\* is null and the file card with its download button is displayed,
\* whatever the increment-download POST and the reload of the file info
\* that follows it came to.
C19_DownloadStaysSuccessful ==
  (page = "file" /\ saves >= 1 /\ clicks = saves /\ ~dataReq.set) =>
    (error = Null /\ FileView = "card")


\* C20: on the file page and on the image page the view event is POSTed to
\* /api/file/:slug/analytics at most once in a page view, whatever reloads
\* of the file info, downloads and password entries happen.
C20_ViewEventAtMostOnce ==
  page \in {"file", "image"} => viewPosts <= 1

\* On the file page the view event was sent once, two downloads were saved
\* and every reload of the file info that followed them has settled.
C20_Witness ==
  /\ page = "file"
  /\ viewPosts = 1
  /\ saves = 2
  /\ incReqs = 0
  /\ infoReqs = 0
  /\ error = Null


\* C28: the classifier of the file page and the one of the image page give
\* every user agent the device type, the OS name and the browser name that
\* the classifier of the redirect page gives it.
C28_ClassifiersAgree ==
  (classified.done /\ page \in {"file", "image"}) =>
    /\ classified.device.deviceType = getDeviceInfo(userAgent).deviceType
    /\ classified.device.os = getDeviceInfo(userAgent).os
    /\ classified.device.browser = getDeviceInfo(userAgent).browser


\* h2 is 31 * h + c reduced to a signed 32-bit integer, stated on the two
\* 16-bit halves of the numbers.
Wraps31(h, c, h2) ==
  LET low == 31 * h.lo + c
  IN /\ h2.lo \in 0..(HalfWord - 1)
     /\ h2.hi \in (0 - HalfWord \div 2)..(HalfWord \div 2 - 1)
     /\ h2.lo = low % HalfWord
     /\ h2.hi % HalfWord =
          (31 * (h.hi % HalfWord) + low \div HalfWord) % HalfWord

\* Every round of the hash loop over the characters i..j of str, entered
\* with hash, ends in 31 * hash + char as a signed 32-bit integer.
RECURSIVE EveryRoundWraps(_, _, _, _)
EveryRoundWraps(hash, str, i, j) ==
  IF i > j THEN TRUE
  ELSE IF i = j
    THEN Wraps31(hash, CodeOf[str[i]], HashRange(hash, str, i, i))
  ELSE LET mid == (i + j) \div 2
       IN /\ EveryRoundWraps(hash, str, i, mid)
          /\ EveryRoundWraps(HashRange(hash, str, i, mid), str, mid + 1, j)

\* C24: the hash of generateVisitorId is a signed 32-bit integer after every
\* character, each round giving 31 * hash + char wrapped to 32 bits; the id
\* is the base-36 string of the hash followed by four characters taken from
\* the clock, so that calls with the same components differ in these four
\* characters only.
C24_HashIsInt32 ==
  (visitorId.called /\ browserEnv.navigator /\ browserEnv.screen) =>
    LET str == Components(userAgent, CanvasSignal(browserEnv))
        id == visitorId.id.value
    IN /\ EveryRoundWraps(Halves(0, 0), str, 1, Len(str))
       /\ Len(id) > 4
       /\ \A t \in TimeSuffixes, r \in RandomSuffixes :
            LET other == generateVisitorId(browserEnv, userAgent, t, r).value
            IN /\ Len(t) = 4
               /\ Len(other) = Len(id)
               /\ SubSeq(other, 1, Len(other) - 4) = SubSeq(id, 1, Len(id) - 4)
               /\ SubSeq(other, Len(other) - 3, Len(other)) = t

\* An id has been computed from more than a hundred characters, and in one
\* of the first sixteen rounds the hash left the 32-bit range before it was
\* wrapped.
C24_Witness ==
  /\ visitorId.called
  /\ browserEnv = FullEnv
  /\ LET str == Components(userAgent, CanvasSignal(browserEnv))
     IN /\ Len(str) > 100
        /\ \E k \in 1..16 :
             LET before == HashRange(Halves(0, 0), str, 1, k - 1)
             IN HashStepNoWrap(before, CodeOf[str[k]])
                  # HashStep(before, CodeOf[str[k]])


\* ------------------------------------------- claims about the destination
HasWebScheme(u) == StartsWith(u, HttpPrefix) \/ StartsWith(u, HttpsPrefix)

\* C21: every URL assigned to window.location.href begins with "http://"
\* or "https://"; the url handed to the redirect component is the stored
\* originalUrl, with "https://" in front unless it begins with one of the
\* two, and normalising it again leaves it as it is.
C21_DestinationHasWebScheme ==
  /\ \A i \in DOMAIN navLog : HasWebScheme(navLog[i])
  /\ (page = "slug" /\ slugState = "redirect") =>
       LET stored == slugResp.originalUrl
       IN /\ HasWebScheme(TargetUrl(stored))
          /\ HasWebScheme(stored) => TargetUrl(stored) = stored
          /\ ~HasWebScheme(stored) => TargetUrl(stored) = HttpsPrefix \o stored
          /\ TargetUrl(TargetUrl(stored)) = TargetUrl(stored)
          /\ mounted => HasWebScheme(url)

\* The page has navigated for a stored URL with another scheme.
C21_Witness ==
  /\ slugResp.originalUrl = <<"j", "s", ":", "x">>
  /\ navLog = <<HttpsPrefix \o <<"j", "s", ":", "x">> >>


\* C25: once the redirect component has been torn down (it was mounted, the
\* cleanup of its last effect run has run and the effect does not run
\* again), no step assigns window.location.href.
C25_NoNavigationAfterTeardown ==
  [][(page = "slug" /\ slugState = "redirect" /\ ~mounted)
       => navLog' = navLog]_vars


\* C26: while the redirect component is mounted, every navigation goes to
\* the url prop the component has at that moment; after a change of the
\* prop none goes to the earlier url.
C26_NavigatesToCurrentUrl ==
  [][(mounted /\ navLog' # navLog) => navLog' = Append(navLog, url)]_vars


\* C27: on the image page a view event for a password-protected image has
\* been sent only if the password submitted is the right one and the image
\* was served.
C27_ViewEventAfterCorrectPassword ==
  (page = "image" /\ fileHasPassword /\ viewPosts > 0) =>
    /\ imageUrl.set
    /\ imageUrl.pw = CorrectPassword
    /\ imgLoad = "loaded"


\* --------------------------------- claims about the upload page, dashboard
\* C22: the upload page holds, previews and sends to /api/upload only files
\* of less than 15 * 1024 * 1024 bytes.
C22_OnlySmallFilesAccepted ==
  page = "upload" =>
    /\ selectedFile.set => selectedFile.size < MaxFileSize
    /\ previewUrl.set => previewUrl.size < MaxFileSize
    /\ \A i \in DOMAIN uploaded : uploaded[i] < MaxFileSize

\* C23: when the dashboard's fetchData has ended and the URLs request had
\* succeeded, the short links are displayed and no error is set, whatever
\* the files request came to.
C23_FilesFailureIsGraceful ==
  (page = "dashboard" /\ fetchPc = "done" /\ dashResp.urls = "ok") =>
    (urls /\ error = Null /\ DashboardView = "list")
====
